---------------------------- MODULE Spec2Model ----------------------------
(***************************************************************************)
(* The donor-name matching engine (entity-matcher: normalizeName,          *)
(* extractCoreNames, isTooGeneric, substringMatch, matchEntities,          *)
(* findMatch) and the run-level orchestrator runAll of the Tai Po          *)
(* donations watcher.                                                      *)
(***************************************************************************)
EXTENDS Integers, Sequences, FiniteSets, TLC

(***************************************************************************)
(* Characters.  A string of the program is a sequence of one-character     *)
(* tokens.  ASCII characters stand for themselves; every other character   *)
(* has the token listed here.                                              *)
(*                                                                         *)
(*   dun_comma=、  lquote=「  rquote=」  LPAR=（  RPAR=）  COMMA=，  yi1=一         *)
(*   yu_s=与  zhong=中  ren=人  fen=份  hui_s=会  yuan=元  xian=先  gong=公          *)
(*   quan=券  liu=劉  dong4=動  shi=十  ji2=及  tai=台  si=司  wu=吳  zhou=周         *)
(*   he=和  shou4=售  qi=啟  shan=善  tuan_s=团  guo_s=国  guo=國  tuan=團           *)
(*   ji1=基  shi4=士  fu=夫  nv=女  fu_s=妇  jie=姐  fu4=婦  zi=字  xuan=宣           *)
(*   jia=家  xiao=小  bu=布  bi=幣  du=度  zhang=張  ji_urgent=急  zong_s=总         *)
(*   ci=慈  pi=批  cheng=承  juan=捐  kong=控  hui=會  you=有  li=李  lin=林          *)
(*   kuan=款  min=民  gang=港  wan_s=湾  wan=灣  wu4=物  wang=王  sheng=生           *)
(*   hong=紅  lei=累  jin3=緊  zong=總  hong_s=红  gu=股  yu=與  wan4=萬  yi4=藝      *)
(*   hang=行  ji4=計  nuo=諾  zheng4=證  zi1=資  zeng=贈  zeng_s=赠  zhui=追         *)
(*   jia_add=加  zheng=鄭  jin=金  yin=銀  yin_s=银  ji_s=际  xian4=限  chen=陳      *)
(*   ji_border=際  ji_gather=集  ling=零  shou3=首  xiang=香  huang=黃  ya=亞       *)
(*   yi_also=亦  yi2=儀  zhao=兆  liu_s=刘  jia1=嘉  hong2=宏  zhi=智  dong=東       *)
(*   bai=柏  qiao=橋  qi4=氣  ran=燃  zhi1=芝  fei=菲  yuan2=袁  yong=詠             *)
(*   cheng2=誠  lin2=霖  fang=方  li4=力  shen=申  you2=游  yong3=泳  xue=學         *)
(*   xiao4=校  ji_machine=機  gou=構  long=瀧  zu=祖  lan=藍  nan=男  bao=保         *)
(*   liang=良  ju=局  yong_ever=永  heng=恆  ai=愛  xin=心  zhi_of=之  xing=星       *)
(*   guo_surname=郭  fu_rich=富  cheng_city=城  gu3=古  ju4=巨  huo=霍             *)
(*   ying=英  dian=電  xin1=新  di=地  shi_world=世  jie4=界  tie=鐵  jiao=交        *)
(*   suo=所  ping=平  an=安  hang2=杭  zhou1=州  ling_s=灵  yin3_s=隐  si4=寺        *)
(*   ling2=靈  yin3=隱  liang2=梁  qi2=琪  fu_vice=副  zhu=主  xi=席  he2=何         *)
(*   you_plan=猷  heng1=亨  jun=君  xi1=奚  meng=夢  yao=瑤                        *)
(***************************************************************************)

\* The characters of the alphabet inside the range \u4e00-\u9fff.
CJK ==
  { "yi1", "yu_s", "zhong", "ren", "fen", "hui_s", "yuan", "xian", "gong",
    "quan", "liu", "dong4", "shi", "ji2", "tai", "si", "wu", "zhou", "he",
    "shou4", "qi", "shan", "tuan_s", "guo_s", "guo", "tuan", "ji1", "shi4",
    "fu", "nv", "fu_s", "jie", "fu4", "zi", "xuan", "jia", "xiao", "bu",
    "bi", "du", "zhang", "ji_urgent", "zong_s", "ci", "pi", "cheng", "juan",
    "kong", "hui", "you", "li", "lin", "kuan", "min", "gang", "wan_s",
    "wan", "wu4", "wang", "sheng", "hong", "lei", "jin3", "zong", "hong_s",
    "gu", "yu", "wan4", "yi4", "hang", "ji4", "nuo", "zheng4", "zi1",
    "zeng", "zeng_s", "zhui", "jia_add", "zheng", "jin", "yin", "yin_s",
    "ji_s", "xian4", "chen", "ji_border", "ji_gather", "ling", "shou3",
    "xiang", "huang", "ya", "yi_also", "yi2", "zhao", "liu_s", "jia1",
    "hong2", "zhi", "dong", "bai", "qiao", "qi4", "ran", "zhi1", "fei",
    "yuan2", "yong", "cheng2", "lin2", "fang", "li4", "shen", "you2",
    "yong3", "xue", "xiao4", "ji_machine", "gou", "long", "zu", "lan",
    "nan", "bao", "liang", "ju", "yong_ever", "heng", "ai", "xin", "zhi_of",
    "xing", "guo_surname", "fu_rich", "cheng_city", "gu3", "ju4", "huo",
    "ying", "dian", "xin1", "di", "shi_world", "jie4", "tie", "jiao", "suo",
    "ping", "an", "hang2", "zhou1", "ling_s", "yin3_s", "si4", "ling2",
    "yin3", "liang2", "qi2", "fu_vice", "zhu", "xi", "he2", "you_plan",
    "heng1", "jun", "xi1", "meng", "yao" }

FALSE_POSITIVE_PREFIXES ==
  {
    \* 中國 中国 香港 台灣 台湾
    <<"zhong", "guo">>, <<"zhong", "guo_s">>, <<"xiang", "gang">>, <<"tai",
    "wan">>, <<"tai", "wan_s">>,
    \* 李 張 陳 王 黃 林 劉 吳 周 鄭
    <<"li">>, <<"zhang">>, <<"chen">>, <<"wang">>, <<"huang">>, <<"lin">>,
    <<"liu">>, <<"wu">>, <<"zhou">>, <<"zheng">>,
    \* 藝人 先生 小姐 女士 夫婦 一家
    <<"yi4", "ren">>, <<"xian", "sheng">>, <<"xiao", "jie">>, <<"nv",
    "shi4">>, <<"fu", "fu4">>, <<"yi1", "jia">>,
    \* 集團 集团 公司 基金 銀行 银行
    <<"ji_gather", "tuan">>, <<"ji_gather", "tuan_s">>, <<"gong", "si">>,
    <<"ji1", "jin">>, <<"yin", "hang">>, <<"yin_s", "hang">>,
    \* 捐 捐款 捐贈 捐赠
    <<"juan">>, <<"juan", "kuan">>, <<"juan", "zeng">>, <<"juan", "zeng_s">>
  }

STRIP_WORDS ==
  <<
    <<"yi4", "ren">>,   \* 藝人
    <<"xian", "sheng">>,   \* 先生
    <<"xiao", "jie">>,   \* 小姐
    <<"nv", "shi4">>,   \* 女士
    <<"fu", "fu4">>,   \* 夫婦
    <<"fu", "fu_s">>,   \* 夫妇
    <<"yi1", "jia">>,   \* 一家
    <<"ji2">>,   \* 及
    <<"yu">>,   \* 與
    <<"yu_s">>,   \* 与
    <<"he">>,   \* 和
    <<"dun_comma">>,   \* 、
    <<"/">>,   \* /
    <<",">>,   \* ,
    <<"COMMA">>,   \* ，
    <<"LPAR">>,   \* （
    <<"RPAR">>,   \* ）
    <<"(">>,   \* (
    <<")">>,   \* )
    <<"lquote">>,   \* 「
    <<"rquote">>,   \* 」
    <<"\"">>,   \* "
    <<"\"">>,   \* "
    <<"you", "xian4", "gong", "si">>,   \* 有限公司
    <<"gu", "fen", "you", "xian4", "gong", "si">>,   \* 股份有限公司
    <<"L", "i", "m", "i", "t", "e", "d">>,   \* Limited
    <<"L", "t", "d">>,   \* Ltd
    <<"L", "t", "d", ".">>,   \* Ltd.
    <<"ji_gather", "tuan">>,   \* 集團
    <<"ji_gather", "tuan_s">>,   \* 集团
    <<"G", "r", "o", "u", "p">>,   \* Group
    <<"ji1", "jin", "hui">>,   \* 基金會
    <<"ji1", "jin", "hui_s">>,   \* 基金会
    <<"F", "o", "u", "n", "d", "a", "t", "i", "o", "n">>,   \* Foundation
    <<"ci", "shan">>,   \* 慈善
    <<"C", "h", "a", "r", "i", "t", "y">>,   \* Charity
    <<"kong", "gu">>,   \* 控股
    <<"H", "o", "l", "d", "i", "n", "g", "s">>,   \* Holdings
    <<"guo", "ji_border">>,   \* 國際
    <<"guo_s", "ji_s">>,   \* 国际
    <<"I", "n", "t", "e", "r", "n", "a", "t", "i", "o", "n", "a", "l">>,   \* International
    <<"xiang", "gang">>,   \* 香港
    <<"H", "o", "n", "g", " ", "K", "o", "n", "g">>,   \* Hong Kong
    <<"H", "K">>,   \* HK
    <<"du">>,   \* 度
    <<"ling", "shou4">>,   \* 零售
    <<"qi", "dong4">>,   \* 啟動
    <<"jin3", "ji_urgent">>,   \* 緊急
    <<"xuan", "bu">>,   \* 宣布
    <<"cheng", "nuo">>,   \* 承諾
    <<"lei", "ji4">>,   \* 累計
    <<"shou3", "pi">>,   \* 首批
    <<"zhui", "jia_add">>,   \* 追加
    <<"wan4", "yuan">>,   \* 萬元
    <<"yuan">>,   \* 元
    <<"ren", "min", "bi">>,   \* 人民幣
    <<"wu4", "zi1">>,   \* 物資
    <<"zheng4", "quan">>,   \* 證券
    <<"yin_s", "hang">>,   \* 银行
    <<"yin", "hang">>    \* 銀行
  >>

(***************************************************************************)
(* JavaScript values and string primitives                                 *)
(***************************************************************************)

\* null and undefined, the two non-string values a name argument can take.
Null == <<"null">>
Undefined == <<"undefined">>

\* !name
Falsy(name) == name = Null \/ name = Undefined \/ name = <<>>

\* The characters of the alphabet matched by \s.
Whitespace == {" "}

\* The characters of the alphabet matched by \d.
Digits == {"0", "1", "2", "3", "4", "5", "6", "7", "8", "9"}

UpperCase ==
  <<"A", "B", "C", "D", "E", "F", "G", "H", "I", "J", "K", "L", "M",
    "N", "O", "P", "Q", "R", "S", "T", "U", "V", "W", "X", "Y", "Z">>

LowerCase ==
  <<"a", "b", "c", "d", "e", "f", "g", "h", "i", "j", "k", "l", "m",
    "n", "o", "p", "q", "r", "s", "t", "u", "v", "w", "x", "y", "z">>

UpperSet == {UpperCase[i] : i \in 1..Len(UpperCase)}

\* String.prototype.toLowerCase on one character.
LowerChar(c) ==
  IF c \in UpperSet
    THEN LowerCase[CHOOSE i \in 1..Len(UpperCase) : UpperCase[i] = c]
    ELSE c

\* String.prototype.toLowerCase
toLowerCase(s) == [i \in 1..Len(s) |-> LowerChar(s[i])]

\* String.prototype.trim
trim(s) ==
  LET keep == {i \in 1..Len(s) : s[i] \notin Whitespace}
  IN  IF keep = {} THEN <<>>
      ELSE SubSeq(s, CHOOSE i \in keep : \A j \in keep : i <= j,
                     CHOOSE i \in keep : \A j \in keep : j <= i)

\* String.prototype.includes
includes(longer, shorter) ==
  \E i \in 1..(Len(longer) - Len(shorter) + 1) :
    \A k \in 1..Len(shorter) : longer[i + k - 1] = shorter[k]

\* The literal word, compiled with the flags 'gi', matches s at position i.
MatchesAt(s, i, word) ==
  /\ i + Len(word) - 1 <= Len(s)
  /\ \A k \in 1..Len(word) : LowerChar(s[i + k - 1]) = LowerChar(word[k])

RECURSIVE RemoveFrom(_, _, _)
RemoveFrom(s, word, i) ==
  IF i > Len(s) THEN <<>>
  ELSE IF MatchesAt(s, i, word) THEN RemoveFrom(s, word, i + Len(word))
  ELSE <<s[i]>> \o RemoveFrom(s, word, i + 1)

\* s.replace(new RegExp(escapeRegex(word), 'gi'), ''): every occurrence of
\* the word, found left to right without overlap, is deleted in one pass.
removeAll(s, word) == RemoveFrom(s, word, 1)

\* The number of consecutive characters of s from position i that are in S.
RECURSIVE RunLen(_, _, _)
RunLen(s, i, S) ==
  IF i > Len(s) \/ i < 1 THEN 0
  ELSE IF s[i] \in S THEN 1 + RunLen(s, i + 1, S)
  ELSE 0

\* /\s*[（(]\d+[)）]\s*/ tried at position i: the position after the match,
\* or 0 when there is no match starting at i.
StockCodeEnd(s, i) ==
  LET open == i + RunLen(s, i, Whitespace)
      nd == RunLen(s, open + 1, Digits)
      close == open + 1 + nd
  IN  IF /\ open <= Len(s)
         /\ s[open] \in {"LPAR", "("}
         /\ nd >= 1
         /\ close <= Len(s)
         /\ s[close] \in {")", "RPAR"}
        THEN close + 1 + RunLen(s, close + 1, Whitespace)
        ELSE 0

RECURSIVE RemoveStockFrom(_, _)
RemoveStockFrom(s, i) ==
  IF i > Len(s) THEN <<>>
  ELSE IF StockCodeEnd(s, i) > 0 THEN RemoveStockFrom(s, StockCodeEnd(s, i))
  ELSE <<s[i]>> \o RemoveStockFrom(s, i + 1)

\* normalized.replace(/\s*[（(]\d+[)）]\s*/g, '')
removeStockCodes(s) == RemoveStockFrom(s, 1)

\* normalized.replace(/\s+/g, '')
removeWhitespace(s) == SelectSeq(s, LAMBDA c : c \notin Whitespace)

(***************************************************************************)
(* Script conversion (opencc-js converters cn -> hk and hk -> cn), on the  *)
(* characters of the alphabet that have two forms.                         *)
(***************************************************************************)

\* <<Simplified, Traditional>>
ScriptPairs ==
  { <<"yu_s", "yu">>, <<"hui_s", "hui">>, <<"tuan_s", "tuan">>,
    <<"guo_s", "guo">>, <<"fu_s", "fu4">>, <<"zong_s", "zong">>,
    <<"wan_s", "wan">>, <<"hong_s", "hong">>, <<"zeng_s", "zeng">>,
    <<"yin_s", "yin">>, <<"ji_s", "ji_border">>, <<"liu_s", "liu">>,
    <<"ling_s", "ling2">>, <<"yin3_s", "yin3">> }

SimplifiedChars == {p[1] : p \in ScriptPairs}
TraditionalChars == {p[2] : p \in ScriptPairs}

\* A converter that leaves every character as it is.
s2tUnconverted(s) == s

s2t(s) ==
  [i \in 1..Len(s) |->
     IF s[i] \in SimplifiedChars
       THEN (CHOOSE p \in ScriptPairs : p[1] = s[i])[2]
       ELSE s[i]]

t2s(s) ==
  [i \in 1..Len(s) |->
     IF s[i] \in TraditionalChars
       THEN (CHOOSE p \in ScriptPairs : p[2] = s[i])[1]
       ELSE s[i]]

(***************************************************************************)
(* Name normalizer                                                         *)
(***************************************************************************)

\* The words of STRIP_WORDS, from word k on, whose first character occurs in
\* s (compared as the flag 'i' compares): deleting any other word leaves s
\* as it is.
StripCandidates(s, k) ==
  {j \in k..Len(STRIP_WORDS) :
     \E i \in 1..Len(s) : LowerChar(s[i]) = LowerChar(STRIP_WORDS[j][1])}

\* for (const word of STRIP_WORDS) s = s.replace(<word>, ''), from word k on:
\* the words are applied in the order of the table.
RECURSIVE StripFrom(_, _)
StripFrom(s, k) ==
  LET candidates == StripCandidates(s, k)
  IN  IF candidates = {} THEN s
      ELSE LET j == CHOOSE c \in candidates : \A d \in candidates : c <= d
           IN  StripFrom(removeAll(s, STRIP_WORDS[j]), j + 1)

\* s.replace(/pattern/g, replacement) for a literal, case-sensitive pattern.
RECURSIVE ReplaceFrom(_, _, _, _)
ReplaceFrom(s, pattern, replacement, i) ==
  IF i > Len(s) THEN <<>>
  ELSE IF /\ i + Len(pattern) - 1 <= Len(s)
          /\ SubSeq(s, i, i + Len(pattern) - 1) = pattern
    THEN replacement \o ReplaceFrom(s, pattern, replacement, i + Len(pattern))
  ELSE <<s[i]>> \o ReplaceFrom(s, pattern, replacement, i + 1)

\* The organizational aliases: <<pattern, canonical form>>, in source order.
ORG_ALIASES ==
  <<
    \* 紅十字總會 -> 紅十字會總會
    << <<"hong", "shi", "zi", "zong", "hui">>,
       <<"hong", "shi", "zi", "hui", "zong", "hui">> >>,
    \* 红十字总会 -> 红十字会总会
    << <<"hong_s", "shi", "zi", "zong_s", "hui_s">>,
       <<"hong_s", "shi", "zi", "hui_s", "zong_s", "hui_s">> >>
  >>

normalizeOrgName(name) ==
  IF Falsy(name) THEN <<>>
  ELSE ReplaceFrom(ReplaceFrom(name, ORG_ALIASES[1][1], ORG_ALIASES[1][2], 1),
                   ORG_ALIASES[2][1], ORG_ALIASES[2][2], 1)

normalizeName(name) ==
  IF Falsy(name) THEN <<>>
  ELSE removeWhitespace(
         StripFrom(removeStockCodes(toLowerCase(trim(name))), 1))

(***************************************************************************)
(* Core-name extractor                                                     *)
(***************************************************************************)

\* The characters of SEPARATOR_PATTERN = /[、\/,，及與与和\s]+/
Separators ==
  {"dun_comma", "/", ",", "COMMA", "ji2", "yu", "yu_s", "he"} \cup Whitespace

\* name.split(SEPARATOR_PATTERN): the pieces between the maximal runs of
\* separators; a name that starts or ends with a separator has an empty
\* first or last piece.
RECURSIVE SplitFrom(_, _, _)
SplitFrom(s, i, piece) ==
  IF i > Len(s) THEN <<piece>>
  ELSE IF s[i] \in Separators
    THEN IF i > 1 /\ s[i - 1] \in Separators
           THEN SplitFrom(s, i + 1, piece)
           ELSE <<piece>> \o SplitFrom(s, i + 1, <<>>)
  ELSE SplitFrom(s, i + 1, Append(piece, s[i]))

split(s) == SplitFrom(s, 1, <<>>)

\* The loop body of extractCoreNames without the removal of the stop-phrases.
cleanPartTrimOnly(part) == trim(part)

\* The loop body of extractCoreNames on one part.
cleanPart(part) == trim(StripFrom(part, 1))

\* CollectCores keeping every part that is not empty once cleaned.
RECURSIVE CollectCoresKeepsShort(_, _)
CollectCoresKeepsShort(parts, k) ==
  IF k > Len(parts) THEN <<>>
  ELSE (IF Len(cleanPart(parts[k])) >= 1 THEN <<cleanPart(parts[k])>> ELSE <<>>)
       \o CollectCoresKeepsShort(parts, k + 1)

RECURSIVE CollectCores(_, _)
CollectCores(parts, k) ==
  IF k > Len(parts) THEN <<>>
  ELSE (IF Len(cleanPart(parts[k])) >= 2 THEN <<cleanPart(parts[k])>> ELSE <<>>)
       \o CollectCores(parts, k + 1)

extractCoreNames(name) ==
  IF Falsy(name) THEN <<>>
  ELSE CollectCores(SelectSeq(split(name), LAMBDA p : trim(p) # <<>>), 1)

(***************************************************************************)
(* Generic-name guard                                                      *)
(***************************************************************************)

MIN_SUBSTRING_LENGTH_CN == 2
MIN_SUBSTRING_LENGTH_EN == 4

containsChinese(str) == \E i \in 1..Len(str) : str[i] \in CJK

getMinLength(str) ==
  IF containsChinese(str) THEN MIN_SUBSTRING_LENGTH_CN
  ELSE MIN_SUBSTRING_LENGTH_EN

isTooGeneric(name) ==
  LET normalized == toLowerCase(trim(name))
  IN  \/ Len(normalized) < getMinLength(normalized)
      \/ \E prefix \in FALSE_POSITIVE_PREFIXES :
           normalized = toLowerCase(prefix)

(***************************************************************************)
(* Match engine                                                            *)
(***************************************************************************)

\* substringMatch from the normalization on, looking for the first name in
\* the second only.
substringMatchOneWay(n1, n2) ==
  IF n1 = <<>> \/ n2 = <<>> THEN FALSE
  ELSE IF n1 = n2 THEN TRUE
  ELSE IF isTooGeneric(n1) THEN FALSE
  ELSE includes(n2, n1)

\* substringMatch after its first two lines: n1 and n2 are the normalized
\* names.
substringMatchNormalized(n1, n2) ==
  LET shorter == IF Len(n1) <= Len(n2) THEN n1 ELSE n2
      longer == IF Len(n1) <= Len(n2) THEN n2 ELSE n1
  IN  IF n1 = <<>> \/ n2 = <<>> THEN FALSE
      ELSE IF n1 = n2 THEN TRUE
      ELSE IF isTooGeneric(shorter) THEN FALSE
      ELSE includes(longer, shorter)

substringMatch(name1, name2) ==
  substringMatchNormalized(normalizeName(name1), normalizeName(name2))

\* The body of the two nested loops over the cores: the reason returned for
\* the pairing (sc, ec), or "none" when the loops go on.
corePairing(sc, ec) ==
  IF Len(sc) >= getMinLength(sc) /\ Len(ec) >= getMinLength(ec)
    THEN IF toLowerCase(sc) = toLowerCase(ec) THEN "core-exact"
         ELSE IF /\ \/ includes(toLowerCase(sc), toLowerCase(ec))
                    \/ includes(toLowerCase(ec), toLowerCase(sc))
                 /\ ~isTooGeneric(sc)
                 /\ ~isTooGeneric(ec)
           THEN "core-substring"
         ELSE "none"
    ELSE "none"

\* for (const sc of scs) for (const ec of ecs): the reason of the first
\* pairing that returns, from pairing number k on, or "none".
RECURSIVE CoreScan(_, _, _)
CoreScan(scs, ecs, k) ==
  IF k > Len(scs) * Len(ecs) THEN "none"
  ELSE LET sc == scs[((k - 1) \div Len(ecs)) + 1]
           ec == ecs[((k - 1) % Len(ecs)) + 1]
       IN  IF corePairing(sc, ec) # "none" THEN corePairing(sc, ec)
           ELSE CoreScan(scs, ecs, k + 1)

\* The core-name strategy on the extracted cores: the reason it returns, or
\* "none".
coreMatch(scrapedCores, existingCores) ==
  LET scrapedCoresTraditional ==
        [i \in 1..Len(scrapedCores) |-> s2t(scrapedCores[i])]
  IN  CoreScan(scrapedCores \o scrapedCoresTraditional, existingCores, 1)

\* The multi-person strategy satisfied by one matched scraped core.
quorumMatchOfOne(scrapedCores, existingCores) ==
  IF Len(scrapedCores) >= 2 /\ Len(existingCores) >= 2
    THEN LET scrapedSet ==
               {normalizeName(scrapedCores[i]) : i \in 1..Len(scrapedCores)}
             existingSet ==
               {normalizeName(existingCores[i]) : i \in 1..Len(existingCores)}
             matchCount ==
               Cardinality({sc \in scrapedSet :
                              \E ec \in existingSet :
                                sc = ec \/ includes(sc, ec) \/ includes(ec, sc)})
         IN  matchCount >= 1
    ELSE FALSE

\* The multi-person strategy asking that every scraped core be matched.
quorumMatchAll(scrapedCores, existingCores) ==
  IF Len(scrapedCores) >= 2 /\ Len(existingCores) >= 2
    THEN LET scrapedSet ==
               {normalizeName(scrapedCores[i]) : i \in 1..Len(scrapedCores)}
             existingSet ==
               {normalizeName(existingCores[i]) : i \in 1..Len(existingCores)}
         IN  \A sc \in scrapedSet :
               \E ec \in existingSet :
                 sc = ec \/ includes(sc, ec) \/ includes(ec, sc)
    ELSE FALSE

\* The multi-person strategy on the extracted cores.
quorumMatch(scrapedCores, existingCores) ==
  IF Len(scrapedCores) >= 2 /\ Len(existingCores) >= 2
    THEN LET scrapedSet ==
               {normalizeName(scrapedCores[i]) : i \in 1..Len(scrapedCores)}
             existingSet ==
               {normalizeName(existingCores[i]) : i \in 1..Len(existingCores)}
             matchCount ==
               Cardinality({sc \in scrapedSet :
                              \E ec \in existingSet :
                                sc = ec \/ includes(sc, ec) \/ includes(ec, sc)})
         IN  matchCount >= 2
    ELSE FALSE

Verdict(matched, reason) == [matched |-> matched, reason |-> reason]

\* matchCores reporting a success of the multi-person strategy under the
\* reason of the final return.
matchCoresUnnamed(scrapedCores, existingCores) ==
  IF coreMatch(scrapedCores, existingCores) # "none"
    THEN Verdict(TRUE, coreMatch(scrapedCores, existingCores))
  ELSE IF quorumMatch(scrapedCores, existingCores)
    THEN Verdict(TRUE, "no-match")
  ELSE Verdict(FALSE, "no-match")

\* matchEntities from the extraction of the cores on: the core-name strategy,
\* then the multi-person strategy.
matchCores(scrapedCores, existingCores) ==
  IF coreMatch(scrapedCores, existingCores) # "none"
    THEN Verdict(TRUE, coreMatch(scrapedCores, existingCores))
  ELSE IF quorumMatch(scrapedCores, existingCores)
    THEN Verdict(TRUE, "multi-person")
  ELSE Verdict(FALSE, "no-match")

\* matchNormalized with the core-name strategy tried before the substring
\* strategies.
matchNormalizedCoreFirst(scrapedName, existingName, normalizedScraped, normalizedExisting) ==
  IF coreMatch(extractCoreNames(scrapedName), extractCoreNames(existingName)) # "none"
    THEN Verdict(TRUE, coreMatch(extractCoreNames(scrapedName),
                                 extractCoreNames(existingName)))
  ELSE IF substringMatch(normalizedScraped, normalizedExisting)
    THEN Verdict(TRUE, "direct")
  ELSE IF substringMatch(s2t(normalizedScraped), normalizedExisting)
    THEN Verdict(TRUE, "s2t")
  ELSE IF substringMatch(normalizedScraped, t2s(normalizedExisting))
    THEN Verdict(TRUE, "t2s")
  ELSE IF quorumMatch(extractCoreNames(scrapedName), extractCoreNames(existingName))
    THEN Verdict(TRUE, "multi-person")
  ELSE Verdict(FALSE, "no-match")

\* matchEntities after the aliases are rewritten: normalizedScraped and
\* normalizedExisting are the two names as normalizeOrgName leaves them.
matchNormalized(scrapedName, existingName, normalizedScraped, normalizedExisting) ==
  IF substringMatch(normalizedScraped, normalizedExisting)
    THEN Verdict(TRUE, "direct")
  ELSE IF substringMatch(s2t(normalizedScraped), normalizedExisting)
    THEN Verdict(TRUE, "s2t")
  ELSE IF substringMatch(normalizedScraped, t2s(normalizedExisting))
    THEN Verdict(TRUE, "t2s")
  ELSE matchCores(extractCoreNames(scrapedName), extractCoreNames(existingName))

\* matchEntities without its guard on empty names: a name that is not a
\* string reads as the empty string.
matchEntitiesUnguarded(scrapedName, existingName) ==
  matchNormalized(IF Falsy(scrapedName) THEN <<>> ELSE scrapedName,
                  IF Falsy(existingName) THEN <<>> ELSE existingName,
                  normalizeOrgName(IF Falsy(scrapedName) THEN <<>> ELSE scrapedName),
                  normalizeOrgName(IF Falsy(existingName) THEN <<>> ELSE existingName))

matchEntities(scrapedName, existingName) ==
  IF Falsy(scrapedName) \/ Falsy(existingName) THEN Verdict(FALSE, "empty")
  ELSE matchNormalized(scrapedName, existingName,
                       normalizeOrgName(scrapedName),
                       normalizeOrgName(existingName))

(***************************************************************************)
(* Ledger scan                                                             *)
(***************************************************************************)

\* A ledger (the Map existingDonations) is the sequence of its entries in
\* insertion order; an entry is [key, entity], the key being the normalized
\* name the Map is indexed by and entity the display name of the donation.

RECURSIVE ScanFrom(_, _, _)

\* ScanEntry that goes on scanning after a positive verdict and keeps the
\* last one.
ScanEntryKeepsLast(scrapedName, existingDonations, k, result) ==
  IF result.matched /\ ~ScanFrom(scrapedName, existingDonations, k + 1).matched
    THEN [matched |-> TRUE, matchedEntity |-> existingDonations[k].entity,
          reason |-> result.reason]
    ELSE ScanFrom(scrapedName, existingDonations, k + 1)

\* The body of the loop of findMatch on entry k, result being the verdict of
\* matchEntities on it.
ScanEntry(scrapedName, existingDonations, k, result) ==
  IF result.matched
    THEN [matched |-> TRUE, matchedEntity |-> existingDonations[k].entity,
          reason |-> result.reason]
    ELSE ScanFrom(scrapedName, existingDonations, k + 1)

\* for (const [key, donation] of existingDonations), from entry k on.
ScanFrom(scrapedName, existingDonations, k) ==
  IF k > Len(existingDonations)
    THEN [matched |-> FALSE, matchedEntity |-> Null, reason |-> "no-match"]
    ELSE ScanEntry(scrapedName, existingDonations, k,
                   matchEntities(scrapedName, existingDonations[k].entity))

findMatch(scrapedName, existingDonations) ==
  ScanFrom(scrapedName, existingDonations, 1)

(***************************************************************************)
(* The fixtures of test-matcher.js: <<scrapedName, existingName, shouldMatch>> *)
(***************************************************************************)

TEST_CASES ==
  <<
    \* 東亞 | 東亞銀行
    << <<"dong", "ya">>,
       <<"dong", "ya", "yin", "hang">>,
       TRUE >>,
    \* 東亞銀行 | 東亞
    << <<"dong", "ya", "yin", "hang">>,
       <<"dong", "ya">>,
       TRUE >>,
    \* 刘亦菲女士 | 劉亦菲
    << <<"liu_s", "yi_also", "fei", "nv", "shi4">>,
       <<"liu", "yi_also", "fei">>,
       TRUE >>,
    \* 中国红十字会 | 中國紅十字會
    << <<"zhong", "guo_s", "hong_s", "shi", "zi", "hui_s">>,
       <<"zhong", "guo", "hong", "shi", "zi", "hui">>,
       TRUE >>,
    \* 杭州灵隐寺 | 杭州靈隱寺
    << <<"hang2", "zhou1", "ling_s", "yin3_s", "si4">>,
       <<"hang2", "zhou1", "ling2", "yin3", "si4">>,
       TRUE >>,
    \* 藝人張智霖先生 及 袁詠儀小姐一家 | 張智霖及袁詠儀
    << <<"yi4", "ren", "zhang", "zhi", "lin2", "xian", "sheng", " ", "ji2", " ", "yuan2", "yong", "yi2", "xiao", "jie", "yi1", "jia">>,
       <<"zhang", "zhi", "lin2", "ji2", "yuan2", "yong", "yi2">>,
       TRUE >>,
    \* 藝人方力申先生、香港游泳學校、慈善機構一瀧游泳 | 方力申/香港游泳學校/一瀧游泳
    << <<"yi4", "ren", "fang", "li4", "shen", "xian", "sheng", "dun_comma", "xiang", "gang", "you2", "yong3", "xue", "xiao4", "dun_comma", "ci", "shan", "ji_machine", "gou", "yi1", "long", "you2", "yong3">>,
       <<"fang", "li4", "shen", "/", "xiang", "gang", "you2", "yong3", "xue", "xiao4", "/", "yi1", "long", "you2", "yong3">>,
       TRUE >>,
    \* 王祖藍李亞男夫婦 | 王祖藍及李亞男
    << <<"wang", "zu", "lan", "li", "ya", "nan", "fu", "fu4">>,
       <<"wang", "zu", "lan", "ji2", "li", "ya", "nan">>,
       TRUE >>,
    \* 中國燃氣（0384） | 中國宏橋
    << <<"zhong", "guo", "ran", "qi4", "LPAR", "0", "3", "8", "4", "RPAR">>,
       <<"zhong", "guo", "hong2", "qiao">>,
       FALSE >>,
    \* 中國燃氣（0384） | 中國平安
    << <<"zhong", "guo", "ran", "qi4", "LPAR", "0", "3", "8", "4", "RPAR">>,
       <<"zhong", "guo", "ping", "an">>,
       FALSE >>,
    \* 中國宏橋 | 中國平安
    << <<"zhong", "guo", "hong2", "qiao">>,
       <<"zhong", "guo", "ping", "an">>,
       FALSE >>,
    \* 李嘉誠 | 李兆基
    << <<"li", "jia1", "cheng2">>,
       <<"li", "zhao", "ji1">>,
       FALSE >>,
    \* 張柏芝 | 張智霖
    << <<"zhang", "bai", "zhi1">>,
       <<"zhang", "zhi", "lin2">>,
       FALSE >>,
    \* HashKey Group | HashKey
    << <<"H", "a", "s", "h", "K", "e", "y", " ", "G", "r", "o", "u", "p">>,
       <<"H", "a", "s", "h", "K", "e", "y">>,
       TRUE >>,
    \* Amber Group | Amber
    << <<"A", "m", "b", "e", "r", " ", "G", "r", "o", "u", "p">>,
       <<"A", "m", "b", "e", "r">>,
       TRUE >>,
    \* DFI集團 | DFI
    << <<"D", "F", "I", "ji_gather", "tuan">>,
       <<"D", "F", "I">>,
       TRUE >>,
    \* 保良局永恆愛心之星郭富城先生 | 郭富城
    << <<"bao", "liang", "ju", "yong_ever", "heng", "ai", "xin", "zhi_of", "xing", "guo_surname", "fu_rich", "cheng_city", "xian", "sheng">>,
       <<"guo_surname", "fu_rich", "cheng_city">>,
       TRUE >>,
    \* 藝人古巨基先生 | 古巨基
    << <<"yi4", "ren", "gu3", "ju4", "ji1", "xian", "sheng">>,
       <<"gu3", "ju4", "ji1">>,
       TRUE >>,
    \* 霍英東基金會 | 霍英東基金
    << <<"huo", "ying", "dong", "ji1", "jin", "hui">>,
       <<"huo", "ying", "dong", "ji1", "jin">>,
       TRUE >>,
    \* 中電 | 中銀
    << <<"zhong", "dian">>,
       <<"zhong", "yin">>,
       FALSE >>,
    \* 新地 | 新世界
    << <<"xin1", "di">>,
       <<"xin1", "shi_world", "jie4">>,
       FALSE >>,
    \* 港鐵 | 港交所
    << <<"gang", "tie">>,
       <<"gang", "jiao", "suo">>,
       FALSE >>,
    \* 中國紅十字總會 | 中國紅十字會總會
    << <<"zhong", "guo", "hong", "shi", "zi", "zong", "hui">>,
       <<"zhong", "guo", "hong", "shi", "zi", "hui", "zong", "hui">>,
       TRUE >>,
    \* 中国红十字总会 | 中國紅十字會總會
    << <<"zhong", "guo_s", "hong_s", "shi", "zi", "zong_s", "hui_s">>,
       <<"zhong", "guo", "hong", "shi", "zi", "hui", "zong", "hui">>,
       TRUE >>,
    \* 361度集團 | 361集團（1361）
    << <<"3", "6", "1", "du", "ji_gather", "tuan">>,
       <<"3", "6", "1", "ji_gather", "tuan", "LPAR", "1", "3", "6", "1", "RPAR">>,
       TRUE >>,
    \* 361集團 | 361度集團
    << <<"3", "6", "1", "ji_gather", "tuan">>,
       <<"3", "6", "1", "du", "ji_gather", "tuan">>,
       TRUE >>
  >>

(***************************************************************************)
(* State                                                                   *)
(***************************************************************************)

VARIABLES
  call,               \* the last call of the matching engine and its result
  previous,           \* an earlier call of the matching engine and its result
  tables,             \* the module-level tables of the matching engine
  pc,                 \* runAll: where the run is
  idx,                \* runAll: the index in ALL_SCRAPERS the loop is at
  running,            \* runAll: the scrapers whose scrape() is pending
  existingDonations,  \* runAll: the ledger snapshot
  outcome,            \* runAll: how the last awaited scrape() settled
  newDonations,       \* runAll: the local list of the last try block
  matchedDonations,   \* runAll: the local list of the last try block
  allNewDonations,    \* runAll: the aggregated new donations
  allLogs,            \* runAll: one log entry per finished scraper
  results,            \* runAll: one result per finished scraper
  browserInstance,    \* base: the shared browser ("none" or "open")
  tab,                \* the rows of the auto-update tab below its header
  returned,           \* runAll: the value the run resolved to, or Null
  browsers,           \* base: the browsers launched, each "open" or "closed"
  shared,             \* base: the browser browserInstance refers to, 0 for null
  pages,              \* base: the pages opened, with their browser
  tasks               \* base: the callers of the browser functions

engineVars == <<call, previous, tables>>
runVars ==
  <<pc, idx, running, existingDonations, outcome, newDonations,
    matchedDonations, allNewDonations, allLogs, results, browserInstance, tab,
    returned>>
browserVars == <<browsers, shared, pages, tasks>>
vars ==
  <<call, previous, tables, pc, idx, running, existingDonations, outcome, newDonations,
    matchedDonations, allNewDonations, allLogs, results, browserInstance, tab,
    returned, browsers, shared, pages, tasks>>

(***************************************************************************)
(* Inputs of the matching engine                                           *)
(***************************************************************************)

MaxScrapedParts == 2
MaxExistingParts == 1
MaxNameLen == 3
MaxLedger == 2
MaxSegments == 3

\* The fragments generated names are made of.
Fragments ==
  { <<"zhong", "guo">>,          \* 中國, on the generic denylist
    <<"ran", "qi4">>,            \* 燃氣, a distinctive word
    <<"yin", "hang">>,           \* 銀行, a stop-phrase
    <<" ">>,                      \* whitespace, which is also a separator
    <<"LPAR", "0", "3", "8", "4", "RPAR">> }   \* （0384）, a stock code

RECURSIVE Flatten(_)
Flatten(parts) ==
  IF parts = <<>> THEN <<>> ELSE Head(parts) \o Flatten(Tail(parts))

\* The names made of at most n fragments.
NamesOf(n) == {Flatten(parts) : parts \in UNION {[1..m -> Fragments] : m \in 0..n}}

\* Names in one script, in a mix of both, and lists of short Latin names.
CascadeNames ==
  { <<"zhong", "guo_s", "hong_s", "shi", "zi">>,   \* 中国红十字
    <<"zhong", "guo_s", "hong", "shi", "zi">>,     \* 中国紅十字
    <<"A", "B", "/", "C", "D">>,                   \* AB/CD
    <<"C", "D", "/", "A", "B">> }                  \* CD/AB

\* Lists of names: with a word of the generic denylist, with a name that
\* holds another, with a name that is made of titles only.
ListNames ==
  { <<"zhong", "guo">>,                            \* 中國
    <<"A", "B", "/", "C", "D">>,                   \* AB/CD
    <<"zhong", "guo", "/", "A", "B">>,             \* 中國/AB
    <<"zhong", "guo", "dun_comma", "C", "D">>,     \* 中國、CD
    <<"zhang", "zhi", "lin2", "A", "B", "/",
      "gu3", "ju4", "ji1">>,                       \* 張智霖AB/古巨基
    <<"zhang", "zhi", "lin2", "dun_comma",
      "gu3", "ju4", "ji1">>,                       \* 張智霖、古巨基
    <<"A", "B", "/", "A", "B", "C">>,              \* AB/ABC
    <<"A", "B", "C", "dun_comma", "X", "Y">>,      \* ABC、XY
    <<"xian", "xian", "sheng", "sheng", "/",
      "A", "B">> }                                 \* 先先生生/AB

ScrapedNames == NamesOf(MaxScrapedParts) \cup CascadeNames \cup {Null, Undefined}
ExistingNames == NamesOf(MaxExistingParts) \cup CascadeNames \cup {Null, Undefined}

\* The characters normalizeName is called on, and the strings made of them.
NormalizeAlphabet == {"xian", "sheng", " ", "dong"}   \* 先 生 space 東
NormalizeInputs == UNION {[1..m -> NormalizeAlphabet] : m \in 0..MaxNameLen}

\* The names findMatch is called on, and the display names of the ledgers.
FindNames ==
  { <<"liu_s", "yi_also", "fei", "nv", "shi4">>,   \* 刘亦菲女士
    <<"dong", "ya">>,                                    \* 東亞
    <<"zhong", "guo", "ran", "qi4", "LPAR", "0", "3", "8", "4", "RPAR">>,   \* 中國燃氣（0384）
    <<"zhang", "bai", "zhi1">> }                           \* 張柏芝

LedgerPool ==
  { <<"liu", "yi_also", "fei">>,          \* 劉亦菲
    <<"liu_s", "yi_also", "fei">>,        \* 刘亦菲
    <<"dong", "ya", "yin", "hang">>,       \* 東亞銀行
    <<"zhong", "guo", "hong2", "qiao">> }   \* 中國宏橋

\* The entry fetchExistingDonations makes of a display name.
LedgerEntry(entity) == [key |-> toLowerCase(trim(entity)), entity |-> entity]

\* The ledgers of at most n entries: a Map holds each key once.
LedgersOf(n) ==
  {[i \in DOMAIN names |-> LedgerEntry(names[i])] :
     names \in {f \in UNION {[1..m -> LedgerPool] : m \in 0..n} :
                  \A i, j \in DOMAIN f : i # j => f[i] # f[j]}}

\* The constituent names two multi-donor strings share, and the ones either
\* has besides.
GroupCores ==
  { <<"zhang", "zhi", "lin2">>,   \* 張智霖
    <<"A", "B">>,
    <<"A", "b">>,
    <<"C", "D">> }
GroupExtras ==
  { <<>>,
    <<"gu3", "ju4", "ji1">>,      \* 古巨基
    <<"C", "D">> }

\* A multi-donor string: the constituent names, each followed by the title,
\* with the separator between them.
RECURSIVE JoinGroup(_, _, _)
JoinGroup(members, separator, title) ==
  IF members = <<>> THEN <<>>
  ELSE IF Head(members) = <<>> THEN JoinGroup(Tail(members), separator, title)
  ELSE Head(members) \o title
         \o (IF \A i \in 1..Len(Tail(members)) : Tail(members)[i] = <<>>
               THEN <<>>
               ELSE separator \o JoinGroup(Tail(members), separator, title))

\* Names that hold the Red Cross society in its short and in its canonical
\* form, alone and in a list with a person.
AliasNames ==
  { <<"hong", "shi", "zi", "zong", "hui">>,                    \* 紅十字總會
    <<"hong", "shi", "zi", "hui", "zong", "hui">>,             \* 紅十字會總會
    <<"zhang", "bai", "zhi1", "dun_comma",
      "hong", "shi", "zi", "zong", "hui">>,                    \* 張柏芝、紅十字總會
    <<"zhang", "bai", "zhi1", "dun_comma",
      "hong", "shi", "zi", "hui", "zong", "hui">>,             \* 張柏芝、紅十字會總會
    <<"hong", "shi", "zi", "zong", "hui", "/",
      "gu3", "ju4", "ji1">>,                                   \* 紅十字總會/古巨基
    <<"hong", "shi", "zi", "hui", "zong", "hui", "/",
      "gu3", "ju4", "ji1">> }                                  \* 紅十字會總會/古巨基

\* The segments the names given to extractCoreNames are made of, and the
\* separators between them.
ExtractSegments ==
  { <<"zhang">>,                                  \* 張
    <<"bai", "zhi1">>,                            \* 柏芝
    <<"bai", "zhi1", "xian", "sheng">>,           \* 柏芝先生
    <<"xian", "sheng">>,                          \* 先生
    <<"A", "B">>,
    <<"yi4", "ren", "A", "nv", "shi4">> }         \* 藝人A女士
ExtractSeparators ==
  { <<"dun_comma">>,             \* 、
    <<" ", "ji2", " ">> }        \* 及 between spaces

\* The names extractCoreNames is called on: lists of segments, and the names
\* of test-matcher.js.
ExtractNames ==
  {JoinGroup(segments, separator, <<>>) :
     segments \in UNION {[1..m -> ExtractSegments] : m \in 0..MaxSegments},
     separator \in ExtractSeparators}
    \cup {TEST_CASES[t][1] : t \in 1..Len(TEST_CASES)}
    \cup {TEST_CASES[t][2] : t \in 1..Len(TEST_CASES)}

\* Names in Simplified Chinese, each with its rendering in Traditional
\* Chinese, and the honorifics a scraped name ends with.
ScriptRenderings ==
  { << <<"liu_s", "yi_also", "fei">>, <<"liu", "yi_also", "fei">> >>,   \* 刘亦菲 | 劉亦菲
    << TEST_CASES[4][1], TEST_CASES[4][2] >>,           \* 中国红十字会 | 中國紅十字會
    << TEST_CASES[5][1], TEST_CASES[5][2] >>,           \* 杭州灵隐寺 | 杭州靈隱寺
    << <<"zhong", "guo_s">>, <<"zhong", "guo">> >>,     \* 中国 | 中國
    << <<"liu_s">>, <<"liu">> >>,                       \* 刘 | 劉
    << <<"ci", "shan", "ji1", "jin", "hui_s">>,
       <<"ci", "shan", "ji1", "jin", "hui">> >> }       \* 慈善基金会 | 慈善基金會
Honorifics ==
  { <<>>,
    <<"nv", "shi4">>,        \* 女士
    <<"xian", "sheng">> }    \* 先生

\* The characters of the names isTooGeneric is called on: 中 and 國 of the
\* block U+4E00..U+9FFF, the ideograph 䶮 (U+4DAE, of CJK Extension A, outside
\* that block), a space and a Latin letter; and the names made of them, with
\* the names the guard is documented with.
GenericAlphabet == {"zhong", "guo", "yan_extA", " ", "A"}
GenericInputs ==
  UNION {[1..m -> GenericAlphabet] : m \in 0..MaxNameLen}
    \cup { <<"dong", "ya">>,                        \* 東亞
           <<"zhong", "guo", "ran", "qi4">>,        \* 中國燃氣
           <<"zhang">>,                             \* 張
           <<"A", "B", "C", "D">>,
           <<" ", "A", "B", "C", " ">> }

(***************************************************************************)
(* Calls of the matching engine                                            *)
(***************************************************************************)

NoCall == [fn |-> "none"]

\* The arrays the module creates when it is loaded.
StaticTables ==
  [STRIP_WORDS |-> STRIP_WORDS,
   FALSE_POSITIVE_PREFIXES |-> FALSE_POSITIVE_PREFIXES]

CallMatchEntities ==
  /\ call = NoCall
  /\ \E scrapedName \in ScrapedNames, existingName \in ExistingNames :
       /\ call' = [fn |-> "matchEntities", scrapedName |-> scrapedName,
                   existingName |-> existingName,
                   result |-> matchEntities(scrapedName, existingName)]
       /\ UNCHANGED <<previous, tables, runVars, browserVars>>

\* CallMatchFixture with a verdict cache that is keyed on the scraped name
\* alone: a call after an earlier call with the same scraped name is answered
\* with the earlier verdict.
CallMatchFixtureCached ==
  /\ call = NoCall
  /\ \E t \in 1..Len(TEST_CASES), swapped \in BOOLEAN :
       LET scrapedName == IF swapped THEN TEST_CASES[t][2] ELSE TEST_CASES[t][1]
           existingName == IF swapped THEN TEST_CASES[t][1] ELSE TEST_CASES[t][2]
       IN  /\ call' = [fn |-> "matchEntities", scrapedName |-> scrapedName,
                       existingName |-> existingName,
                       result |->
                         IF /\ previous.fn = "matchEntities"
                            /\ previous.scrapedName = scrapedName
                           THEN previous.result
                           ELSE matchEntities(scrapedName, existingName)]
           /\ UNCHANGED <<previous, tables, runVars, browserVars>>

\* The calls test-matcher.js makes, and the same calls with the arguments
\* swapped.
CallMatchFixture ==
  /\ call = NoCall
  /\ \E t \in 1..Len(TEST_CASES), swapped \in BOOLEAN :
       LET scrapedName == IF swapped THEN TEST_CASES[t][2] ELSE TEST_CASES[t][1]
           existingName == IF swapped THEN TEST_CASES[t][1] ELSE TEST_CASES[t][2]
       IN  /\ call' = [fn |-> "matchEntities", scrapedName |-> scrapedName,
                       existingName |-> existingName,
                       result |-> matchEntities(scrapedName, existingName)]
           /\ UNCHANGED <<previous, tables, runVars, browserVars>>

\* matchEntities on two multi-donor strings that share two constituent
\* names: the scraped one lists them bare with slashes, the existing one in
\* the same or the opposite order, with or without titles, with commas.
CallMatchGroups ==
  /\ call = NoCall
  /\ \E first \in GroupCores, second \in GroupCores,
        scrapedExtra \in GroupExtras, existingExtra \in GroupExtras,
        swapped \in BOOLEAN, titled \in BOOLEAN :
       /\ call' = [fn |-> "matchEntities",
                   scrapedName |->
                     JoinGroup(<<first, second, scrapedExtra>>, <<"/">>, <<>>),
                   existingName |->
                     JoinGroup(IF swapped THEN <<second, first, existingExtra>>
                                          ELSE <<first, second, existingExtra>>,
                               <<"dun_comma">>,
                               IF titled THEN <<"xian", "sheng">> ELSE <<>>),
                   result |->
                     matchEntities(
                       JoinGroup(<<first, second, scrapedExtra>>, <<"/">>, <<>>),
                       JoinGroup(IF swapped THEN <<second, first, existingExtra>>
                                            ELSE <<first, second, existingExtra>>,
                                 <<"dun_comma">>,
                                 IF titled THEN <<"xian", "sheng">> ELSE <<>>))]
       /\ UNCHANGED <<previous, tables, runVars, browserVars>>

\* matchEntities on two lists of names.
CallMatchLists ==
  /\ call = NoCall
  /\ \E scrapedName \in ListNames, existingName \in ListNames :
       /\ call' = [fn |-> "matchEntities", scrapedName |-> scrapedName,
                   existingName |-> existingName,
                   result |-> matchEntities(scrapedName, existingName)]
       /\ UNCHANGED <<previous, tables, runVars, browserVars>>

\* matchEntities on names that hold an organization in its short or in its
\* canonical form.
CallMatchAliases ==
  /\ call = NoCall
  /\ \E scrapedName \in AliasNames, existingName \in AliasNames :
       /\ call' = [fn |-> "matchEntities", scrapedName |-> scrapedName,
                   existingName |-> existingName,
                   result |-> matchEntities(scrapedName, existingName)]
       /\ UNCHANGED <<previous, tables, runVars, browserVars>>

\* matchEntities on a scraped name in Simplified Chinese, with or without an
\* honorific, and the existing name that is its rendering in Traditional
\* Chinese.
CallMatchScripts ==
  /\ call = NoCall
  /\ \E rendering \in ScriptRenderings, honorific \in Honorifics :
       /\ call' = [fn |-> "matchEntities",
                   scrapedName |-> rendering[1] \o honorific,
                   existingName |-> rendering[2],
                   result |-> matchEntities(rendering[1] \o honorific,
                                            rendering[2])]
       /\ UNCHANGED <<previous, tables, runVars, browserVars>>

\* substringMatch on two names, in either order.
CallSubstringMatch ==
  /\ call = NoCall
  /\ \E scrapedName \in NamesOf(MaxScrapedParts),
        existingName \in NamesOf(MaxExistingParts), swapped \in BOOLEAN :
       /\ call' = [fn |-> "substringMatch",
                   name1 |-> IF swapped THEN existingName ELSE scrapedName,
                   name2 |-> IF swapped THEN scrapedName ELSE existingName,
                   result |->
                     IF swapped THEN substringMatch(existingName, scrapedName)
                     ELSE substringMatch(scrapedName, existingName)]
       /\ UNCHANGED <<previous, tables, runVars, browserVars>>

CallIsTooGeneric ==
  /\ call = NoCall
  /\ \E name \in GenericInputs :
       /\ call' = [fn |-> "isTooGeneric", name |-> name,
                   result |-> isTooGeneric(name)]
       /\ UNCHANGED <<previous, tables, runVars, browserVars>>

CallNormalizeName ==
  /\ call = NoCall
  /\ \E name \in NormalizeInputs :
       /\ call' = [fn |-> "normalizeName", name |-> name,
                   result |-> normalizeName(name)]
       /\ UNCHANGED <<previous, tables, runVars, browserVars>>

CallExtractCoreNames ==
  /\ call = NoCall
  /\ \E name \in ExtractNames :
       /\ call' = [fn |-> "extractCoreNames", name |-> name,
                   result |-> extractCoreNames(name)]
       /\ UNCHANGED <<previous, tables, runVars, browserVars>>

CallFindMatch ==
  /\ call = NoCall
  /\ \E scrapedName \in FindNames, ledger \in LedgersOf(MaxLedger) :
       /\ call' = [fn |-> "findMatch", scrapedName |-> scrapedName,
                   ledger |-> ledger,
                   ledgerAfter |-> ledger,
                   result |-> findMatch(scrapedName, ledger)]
       /\ UNCHANGED <<previous, tables, runVars, browserVars>>

\* CallFindFixture with a findMatch that scans the ledger by shifting its
\* entries off: the entry it scanned first is no longer in the ledger.
CallFindFixtureConsuming ==
  /\ call = NoCall
  /\ \E t \in 1..Len(TEST_CASES) :
       /\ call' = [fn |-> "findMatch", scrapedName |-> TEST_CASES[t][1],
                   ledger |-> <<LedgerEntry(TEST_CASES[(t % Len(TEST_CASES)) + 1][2]),
                                LedgerEntry(TEST_CASES[t][2])>>,
                   ledgerAfter |-> <<LedgerEntry(TEST_CASES[t][2])>>,
                   result |->
                     findMatch(TEST_CASES[t][1],
                               <<LedgerEntry(TEST_CASES[(t % Len(TEST_CASES)) + 1][2]),
                                 LedgerEntry(TEST_CASES[t][2])>>)]
       /\ UNCHANGED <<previous, tables, runVars, browserVars>>

\* findMatch on the scraped name of a fixture of test-matcher.js, against the
\* ledger made of the existing names of the next fixture and of this one.
CallFindFixture ==
  /\ call = NoCall
  /\ \E t \in 1..Len(TEST_CASES) :
       /\ call' = [fn |-> "findMatch", scrapedName |-> TEST_CASES[t][1],
                   ledger |-> <<LedgerEntry(TEST_CASES[(t % Len(TEST_CASES)) + 1][2]),
                                LedgerEntry(TEST_CASES[t][2])>>,
                   ledgerAfter |->
                     <<LedgerEntry(TEST_CASES[(t % Len(TEST_CASES)) + 1][2]),
                       LedgerEntry(TEST_CASES[t][2])>>,
                   result |->
                     findMatch(TEST_CASES[t][1],
                               <<LedgerEntry(TEST_CASES[(t % Len(TEST_CASES)) + 1][2]),
                                 LedgerEntry(TEST_CASES[t][2])>>)]
       /\ UNCHANGED <<previous, tables, runVars, browserVars>>

\* The call returns; the engine keeps nothing between calls.
Return ==
  /\ call # NoCall
  /\ call' = NoCall
  /\ UNCHANGED <<previous, tables, runVars, browserVars>>

\* The call returns and is remembered as an earlier call.
ReturnRecorded ==
  /\ call # NoCall
  /\ previous' = call
  /\ call' = NoCall
  /\ UNCHANGED <<tables, runVars, browserVars>>

EngineNext ==
  \/ Return
  \/ CallMatchEntities
  \/ CallMatchFixture
  \/ CallMatchGroups
  \/ CallMatchLists
  \/ CallMatchAliases
  \/ CallMatchScripts
  \/ CallSubstringMatch
  \/ CallIsTooGeneric
  \/ CallNormalizeName
  \/ CallExtractCoreNames
  \/ CallFindMatch

\* Calls that follow earlier calls.
HistoryNext ==
  \/ Return
  \/ ReturnRecorded
  \/ CallMatchFixture
  \/ CallFindFixture

(***************************************************************************)
(* runAll (run-all.js) and its collaborators                               *)
(***************************************************************************)

\* The names of ALL_SCRAPERS, in order.
ALL_SCRAPERS ==
  <<"Po Leung Kuk", "Sing Tao Headlines", "China Red Cross", "WhaleAgent",
    "Weibo", "AM730", "ULifestyle">>

\* The scrapers whose scrape() renders pages with the shared browser.
BrowserScrapers == {"Weibo"}

\* A scraped record, of which only the entity takes part in matching, and a
\* null element of the scraped array.
Donation(entity) == [entity |-> entity]
NullDonation == [isNull |-> TRUE]

\* Column A of the main sheet (the header row first) as the run may find it.
SheetChoices ==
  { << <<"E">> >>,
    << <<"E">>,
       <<"dong", "ya", "yin", "hang">>,     \* 東亞銀行
       <<"liu", "yi_also", "fei">> >> }     \* 劉亦菲

\* What scrape() of each scraper may resolve to, in ALL_SCRAPERS order; any
\* scrape() may also reject.  The scrapers read here (poleungkuk.js,
\* redcross-china.js, whaleagent.js, weibo.js) push only records; for
\* stheadline and am730 the array may also hold a null element.
SiteBatches ==
  << \* Po Leung Kuk: 東亞, 張柏芝 | nothing
     { << Donation(<<"dong", "ya">>),
          Donation(<<"zhang", "bai", "zhi1">>) >>,
       <<>> },
     \* Sing Tao Headlines: 張柏芝, 中國燃氣（0384） | 張柏芝, null
     { << Donation(<<"zhang", "bai", "zhi1">>),
          Donation(<<"zhong", "guo", "ran", "qi4", "LPAR", "0", "3", "8", "4", "RPAR">>) >>,
       << Donation(<<"zhang", "bai", "zhi1">>), NullDonation >> },
     \* China Red Cross: 刘亦菲女士 | 中國燃氣（0384）
     { << Donation(<<"liu_s", "yi_also", "fei", "nv", "shi4">>) >>,
       << Donation(<<"zhong", "guo", "ran", "qi4", "LPAR", "0", "3", "8", "4", "RPAR">>) >> },
     \* WhaleAgent: 張柏芝, 東亞, 中國燃氣（0384）
     { << Donation(<<"zhang", "bai", "zhi1">>),
          Donation(<<"dong", "ya">>),
          Donation(<<"zhong", "guo", "ran", "qi4", "LPAR", "0", "3", "8", "4", "RPAR">>) >> },
     \* Weibo: 刘亦菲女士, 張柏芝
     { << Donation(<<"liu_s", "yi_also", "fei", "nv", "shi4">>),
          Donation(<<"zhang", "bai", "zhi1">>) >> },
     \* AM730: 中國燃氣（0384） | null
     { << Donation(<<"zhong", "guo", "ran", "qi4", "LPAR", "0", "3", "8", "4", "RPAR">>) >>,
       << NullDonation >> },
     \* ULifestyle: 張柏芝 | 東亞
     { << Donation(<<"zhang", "bai", "zhi1">>) >>,
       << Donation(<<"dong", "ya">>) >> } >>

\* donations.set(key, value): a new key is appended, an existing key keeps
\* its place and takes the new value.
MapSet(map, key, entity) ==
  IF \E k \in 1..Len(map) : map[k].key = key
    THEN [k \in 1..Len(map) |->
            IF map[k].key = key THEN [key |-> key, entity |-> entity]
            ELSE map[k]]
    ELSE Append(map, [key |-> key, entity |-> entity])

\* The loop of fetchExistingDonations over the rows from row i on.
RECURSIVE FetchFrom(_, _, _)
FetchFrom(rows, i, donations) ==
  IF i > Len(rows) THEN donations
  ELSE IF Falsy(rows[i]) THEN FetchFrom(rows, i + 1, donations)
  ELSE FetchFrom(rows, i + 1,
                 MapSet(donations, toLowerCase(trim(rows[i])), rows[i]))

fetchExistingDonations(rows) ==
  IF Len(rows) < 2 THEN <<>> ELSE FetchFrom(rows, 2, <<>>)

RECURSIVE CompareFrom(_, _, _, _, _)

\* CompareRecord that keeps a matched record in the list of new donations
\* too.
CompareRecordKeepsMatched(scrapedDonations, ledger, k, newSoFar, matchedSoFar, matchResult) ==
  IF matchResult.matched
    THEN CompareFrom(scrapedDonations, ledger, k + 1,
           Append(newSoFar, scrapedDonations[k]),
           Append(matchedSoFar,
                  [entity |-> scrapedDonations[k].entity,
                   matchedWith |-> matchResult.matchedEntity,
                   matchReason |-> matchResult.reason]))
    ELSE CompareFrom(scrapedDonations, ledger, k + 1,
           Append(newSoFar, scrapedDonations[k]), matchedSoFar)

\* The body of the matching loop of runAll on record k, matchResult being
\* what findMatch returns for it.
CompareRecord(scrapedDonations, ledger, k, newSoFar, matchedSoFar, matchResult) ==
  IF matchResult.matched
    THEN CompareFrom(scrapedDonations, ledger, k + 1, newSoFar,
           Append(matchedSoFar,
                  [entity |-> scrapedDonations[k].entity,
                   matchedWith |-> matchResult.matchedEntity,
                   matchReason |-> matchResult.reason]))
    ELSE CompareFrom(scrapedDonations, ledger, k + 1,
           Append(newSoFar, scrapedDonations[k]), matchedSoFar)

\* The matching loop of runAll over scrapedDonations from record k on, with
\* the lists built so far; threw says that reading a record raised.
CompareFrom(scrapedDonations, ledger, k, newSoFar, matchedSoFar) ==
  IF k > Len(scrapedDonations)
    THEN [threw |-> FALSE, newDonations |-> newSoFar,
          matchedDonations |-> matchedSoFar]
  ELSE IF scrapedDonations[k] = NullDonation
    THEN [threw |-> TRUE, newDonations |-> newSoFar,
          matchedDonations |-> matchedSoFar]
  ELSE CompareRecord(scrapedDonations, ledger, k, newSoFar, matchedSoFar,
                     findMatch(scrapedDonations[k].entity, ledger))

\* The log entry and the result of the try block of source i.
SuccessLog(i, total, new, matched) ==
  [sourceName |-> ALL_SCRAPERS[i], totalScraped |-> total, newCount |-> new,
   matchedCount |-> matched, status |-> "Success"]

SuccessResult(i, new, matched) ==
  [name |-> ALL_SCRAPERS[i], success |-> TRUE, newCount |-> new,
   matchedCount |-> matched]

\* The log entry and the result of the catch block of source i.
ErrorLog(i) ==
  [sourceName |-> ALL_SCRAPERS[i], totalScraped |-> 0, newCount |-> 0,
   matchedCount |-> 0, status |-> "Error"]

ErrorResult(i) == [name |-> ALL_SCRAPERS[i], success |-> FALSE]

\* allLogs.reduce((sum, l) => sum + (l.newCount || 0), 0), and the same for
\* matchedCount.
RECURSIVE SumNewCount(_)
SumNewCount(logs) ==
  IF logs = <<>> THEN 0 ELSE Head(logs).newCount + SumNewCount(Tail(logs))

RECURSIVE SumMatchedCount(_)
SumMatchedCount(logs) ==
  IF logs = <<>> THEN 0
  ELSE Head(logs).matchedCount + SumMatchedCount(Tail(logs))

\* The rows writeAllToAutoUpdateTab writes from row 2 on: one row per new
\* donation, converted to Traditional Chinese, then the log section: its
\* heading, the lines of each log entry (one row of the model), the TOTAL
\* line.
DataRows(donations) ==
  [k \in 1..Len(donations) |->
     [kind |-> "data", entity |-> s2t(donations[k].entity)]]

LogRows(logs) ==
  << [kind |-> "run"] >>
    \o [k \in 1..Len(logs) |-> [kind |-> "log", log |-> logs[k]]]
    \o << [kind |-> "total", totalNew |-> SumNewCount(logs),
           totalMatched |-> SumMatchedCount(logs)] >>

TabRows(donations, logs) == DataRows(donations) \o LogRows(logs)

\* What the tab holds below its header when the run starts: the rows of an
\* earlier run.
PreviousTab ==
  TabRows(<< Donation(<<"dong", "ya">>) >>, << SuccessLog(1, 1, 1, 0) >>)

\* The loop of the summary over results, and the value runAll returns.
RECURSIVE SummaryFrom(_, _, _)
SummaryFrom(res, k, summary) ==
  IF k > Len(res) THEN summary
  ELSE IF res[k].success
    THEN SummaryFrom(res, k + 1,
           [totalNew |-> summary.totalNew + res[k].newCount,
            totalMatched |-> summary.totalMatched + res[k].matchedCount,
            successCount |-> summary.successCount + 1,
            failCount |-> summary.failCount])
  ELSE SummaryFrom(res, k + 1,
         [summary EXCEPT !.failCount = summary.failCount + 1])

\* RunResult that reports a run as successful as soon as one source
\* succeeded.
RunResultAnySuccess(res) ==
  LET summary ==
        SummaryFrom(res, 1, [totalNew |-> 0, totalMatched |-> 0,
                             successCount |-> 0, failCount |-> 0])
  IN  [success |-> summary.successCount > 0, results |-> res,
       summary |-> summary]

RunResult(res) ==
  LET summary ==
        SummaryFrom(res, 1, [totalNew |-> 0, totalMatched |-> 0,
                             successCount |-> 0, failCount |-> 0])
  IN  [success |-> summary.failCount = 0, results |-> res, summary |-> summary]

RunInit ==
  /\ pc = "fetch"
  /\ idx = 1
  /\ running = {}
  /\ existingDonations = <<>>
  /\ outcome = [kind |-> "none"]
  /\ newDonations = <<>>
  /\ matchedDonations = <<>>
  /\ allNewDonations = <<>>
  /\ allLogs = <<>>
  /\ results = <<>>
  /\ browserInstance = "none"
  /\ tab = PreviousTab
  /\ returned = Null

\* const existingDonations = await fetchExistingDonations()
FetchLedger ==
  /\ pc = "fetch"
  /\ \E rows \in SheetChoices :
       existingDonations' = fetchExistingDonations(rows)
  /\ pc' = "loop"
  /\ UNCHANGED <<engineVars, browserVars, idx, running, outcome, newDonations, matchedDonations,
                 allNewDonations, allLogs, results, browserInstance, tab,
                 returned>>

\* FetchLedgerFails in a runAll that clears the tab before it fetches the
\* ledger.
FetchLedgerFailsCleared ==
  /\ pc = "fetch"
  /\ tab' = <<>>
  /\ pc' = "rejected"
  /\ UNCHANGED <<engineVars, browserVars, idx, running, existingDonations, outcome, newDonations,
                 matchedDonations, allNewDonations, allLogs, results,
                 browserInstance, returned>>

\* fetchExistingDonations() rejects: runAll rejects.
FetchLedgerFails ==
  /\ pc = "fetch"
  /\ pc' = "rejected"
  /\ UNCHANGED <<engineVars, browserVars, idx, running, existingDonations, outcome, newDonations,
                 matchedDonations, allNewDonations, allLogs, results,
                 browserInstance, tab,
                 returned>>

\* StartScrape without the await: the loop goes on to the next scraper while
\* this one is pending.
StartScrapeNoAwait ==
  /\ pc = "loop"
  /\ idx <= Len(ALL_SCRAPERS)
  /\ running' = running \cup {idx}
  /\ browserInstance' =
       IF ALL_SCRAPERS[idx] \in BrowserScrapers THEN "open"
       ELSE browserInstance
  /\ idx' = idx + 1
  /\ UNCHANGED <<engineVars, browserVars, pc, existingDonations, outcome, newDonations,
                 matchedDonations, allNewDonations, allLogs, results, tab,
                 returned>>

\* for (const scraper of ALL_SCRAPERS) { try { await scraper.module.scrape()
StartScrape ==
  /\ pc = "loop"
  /\ idx <= Len(ALL_SCRAPERS)
  /\ running' = running \cup {idx}
  /\ browserInstance' =
       IF ALL_SCRAPERS[idx] \in BrowserScrapers THEN "open"
       ELSE browserInstance
  /\ pc' = "await"
  /\ UNCHANGED <<engineVars, browserVars, idx, existingDonations, outcome, newDonations,
                 matchedDonations, allNewDonations, allLogs, results, tab,
                 returned>>

\* TryBlock that leaves out of the aggregated list a new record whose entity
\* an earlier source has already put there.
TryBlockDeduplicates(scrapedDonations, compared) ==
  /\ outcome' = [kind |-> "resolved", value |-> scrapedDonations]
  /\ newDonations' = compared.newDonations
  /\ matchedDonations' = compared.matchedDonations
  /\ IF compared.threw
       THEN /\ allLogs' = Append(allLogs, ErrorLog(idx))
            /\ results' = Append(results, ErrorResult(idx))
            /\ UNCHANGED allNewDonations
       ELSE /\ allNewDonations' =
                 allNewDonations \o
                   SelectSeq(compared.newDonations,
                             LAMBDA d : \A k \in 1..Len(allNewDonations) :
                                          allNewDonations[k].entity # d.entity)
            /\ allLogs' =
                 Append(allLogs,
                        SuccessLog(idx, Len(scrapedDonations),
                                   Len(compared.newDonations),
                                   Len(compared.matchedDonations)))
            /\ results' =
                 Append(results,
                        SuccessResult(idx, Len(compared.newDonations),
                                      Len(compared.matchedDonations)))

\* The try block after scrape() resolved to scrapedDonations, compared being
\* the outcome of its matching loop; the catch block when the loop raised.
TryBlock(scrapedDonations, compared) ==
  /\ outcome' = [kind |-> "resolved", value |-> scrapedDonations]
  /\ newDonations' = compared.newDonations
  /\ matchedDonations' = compared.matchedDonations
  /\ IF compared.threw
       THEN /\ allLogs' = Append(allLogs, ErrorLog(idx))
            /\ results' = Append(results, ErrorResult(idx))
            /\ UNCHANGED allNewDonations
       ELSE /\ allNewDonations' = allNewDonations \o compared.newDonations
            /\ allLogs' =
                 Append(allLogs,
                        SuccessLog(idx, Len(scrapedDonations),
                                   Len(compared.newDonations),
                                   Len(compared.matchedDonations)))
            /\ results' =
                 Append(results,
                        SuccessResult(idx, Len(compared.newDonations),
                                      Len(compared.matchedDonations)))

\* ScrapeResolves that also enters the records judged new in the ledger the
\* later sources are matched against.
ScrapeResolvesInsertsNew ==
  /\ pc = "await"
  /\ \E scrapedDonations \in SiteBatches[idx] :
       /\ TryBlock(scrapedDonations,
                   CompareFrom(scrapedDonations, existingDonations, 1, <<>>, <<>>))
       /\ existingDonations' =
            existingDonations \o
              [k \in 1..Len(CompareFrom(scrapedDonations, existingDonations,
                                        1, <<>>, <<>>).newDonations) |->
                 LedgerEntry(CompareFrom(scrapedDonations, existingDonations,
                                         1, <<>>, <<>>).newDonations[k].entity)]
  /\ running' = running \ {idx}
  /\ idx' = idx + 1
  /\ pc' = "loop"
  /\ UNCHANGED <<engineVars, browserVars, browserInstance, tab,
                 returned>>

\* scrape() resolves.
ScrapeResolves ==
  /\ pc = "await"
  /\ \E scrapedDonations \in SiteBatches[idx] :
       TryBlock(scrapedDonations,
                CompareFrom(scrapedDonations, existingDonations, 1, <<>>, <<>>))
  /\ running' = running \ {idx}
  /\ idx' = idx + 1
  /\ pc' = "loop"
  /\ UNCHANGED <<engineVars, browserVars, existingDonations, browserInstance, tab,
                 returned>>

\* ScrapeRejects without the try block around scrape(): the rejection ends
\* the run.
ScrapeRejectsAborts ==
  /\ pc = "await"
  /\ outcome' = [kind |-> "rejected"]
  /\ running' = running \ {idx}
  /\ pc' = "rejected"
  /\ UNCHANGED <<engineVars, browserVars, idx, existingDonations, newDonations, matchedDonations,
                 allNewDonations, allLogs, results, browserInstance, tab,
                 returned>>

\* scrape() rejects: the catch block.
ScrapeRejects ==
  /\ pc = "await"
  /\ outcome' = [kind |-> "rejected"]
  /\ newDonations' = <<>>
  /\ matchedDonations' = <<>>
  /\ allLogs' = Append(allLogs, ErrorLog(idx))
  /\ results' = Append(results, ErrorResult(idx))
  /\ running' = running \ {idx}
  /\ idx' = idx + 1
  /\ pc' = "loop"
  /\ UNCHANGED <<engineVars, browserVars, existingDonations, allNewDonations, browserInstance,
                 tab,
                 returned>>

\* The loop is over: await closeBrowser()
CloseBrowser ==
  /\ pc = "loop"
  /\ idx > Len(ALL_SCRAPERS)
  /\ browserInstance' = "none"
  /\ pc' = "write"
  /\ UNCHANGED <<engineVars, browserVars, idx, running, existingDonations, outcome, newDonations,
                 matchedDonations, allNewDonations, allLogs, results, tab,
                 returned>>

\* The loop is over and browserInstance.close() rejects: closeBrowser rejects
\* before it resets browserInstance, and runAll rejects.
CloseBrowserFails ==
  /\ pc = "loop"
  /\ idx > Len(ALL_SCRAPERS)
  /\ browserInstance = "open"
  /\ pc' = "close-rejected"
  /\ UNCHANGED <<engineVars, browserVars, idx, running, existingDonations, outcome, newDonations,
                 matchedDonations, allNewDonations, allLogs, results,
                 browserInstance, tab, returned>>

\* writeAllToAutoUpdateTab(allNewDonations, allLogs) as far as
\* await clearAutoUpdateTab(): the rows below the header are cleared (a tab
\* that holds its header only is left as it is).
ClearTab ==
  /\ pc = "write"
  /\ tab' = <<>>
  /\ pc' = "update"
  /\ UNCHANGED <<engineVars, browserVars, idx, running, existingDonations, outcome, newDonations,
                 matchedDonations, allNewDonations, allLogs, results,
                 browserInstance, returned>>

\* createWriteClient() or a request of clearAutoUpdateTab() rejects: runAll
\* rejects.
ClearTabFails ==
  /\ pc = "write"
  /\ pc' = "write-rejected"
  /\ UNCHANGED <<engineVars, browserVars, idx, running, existingDonations, outcome, newDonations,
                 matchedDonations, allNewDonations, allLogs, results,
                 browserInstance, tab, returned>>

\* WriteTab that appends the rows of the run below the rows it finds.
WriteTabAppends ==
  /\ pc = "update"
  /\ tab' = PreviousTab \o TabRows(allNewDonations, allLogs)
  /\ returned' = RunResult(results)
  /\ pc' = "done"
  /\ UNCHANGED <<engineVars, browserVars, idx, running, existingDonations, outcome, newDonations,
                 matchedDonations, allNewDonations, allLogs, results,
                 browserInstance>>

\* The rest of writeAllToAutoUpdateTab: the rows are written from row 2 on;
\* then the summary, and runAll returns.
WriteTab ==
  /\ pc = "update"
  /\ tab' = TabRows(allNewDonations, allLogs)
  /\ returned' = RunResult(results)
  /\ pc' = "done"
  /\ UNCHANGED <<engineVars, browserVars, idx, running, existingDonations, outcome, newDonations,
                 matchedDonations, allNewDonations, allLogs, results,
                 browserInstance>>

\* sheets.spreadsheets.values.update rejects: runAll rejects and the tab
\* stays cleared.
WriteTabFails ==
  /\ pc = "update"
  /\ pc' = "write-rejected"
  /\ UNCHANGED <<engineVars, browserVars, idx, running, existingDonations, outcome, newDonations,
                 matchedDonations, allNewDonations, allLogs, results,
                 browserInstance, tab, returned>>

RunNext ==
  \/ FetchLedger
  \/ FetchLedgerFails
  \/ StartScrape
  \/ ScrapeResolves
  \/ ScrapeRejects
  \/ CloseBrowser
  \/ CloseBrowserFails
  \/ ClearTab
  \/ ClearTabFails
  \/ WriteTab
  \/ WriteTabFails

(***************************************************************************)
(* The shared browser of base: getBrowser, closeBrowser, fetchRenderedHtml *)
(***************************************************************************)

\* The callers that use the exported functions, and the calls each makes.
MaxTasks == 2
MaxCalls == 2
Tasks == 1..MaxTasks

\* A caller between two calls.
IdleTask(calls, fn) ==
  [pc |-> "idle", fn |-> fn, browser |-> 0, page |-> 0, calls |-> calls]

BrowserInit ==
  /\ browsers = <<>>
  /\ shared = 0
  /\ pages = <<>>
  /\ tasks = [t \in Tasks |-> IdleTask(0, "none")]

\* getBrowser() up to its await: with no shared browser the launch starts,
\* otherwise the shared browser is returned without a step in between.
CallGetBrowser(t) ==
  /\ tasks[t].pc = "idle"
  /\ tasks[t].calls < MaxCalls
  /\ tasks' =
       [tasks EXCEPT ![t] =
          IF shared = 0
            THEN [pc |-> "launching", fn |-> "getBrowser", browser |-> 0,
                  page |-> 0, calls |-> tasks[t].calls + 1]
            ELSE IdleTask(tasks[t].calls + 1, "getBrowser")]
  /\ UNCHANGED <<engineVars, runVars, browsers, shared, pages>>

\* fetchRenderedHtml(url) up to the await inside getBrowser(), or, when a
\* shared browser exists, up to the await of browser.newPage().
CallFetchRenderedHtml(t) ==
  /\ tasks[t].pc = "idle"
  /\ tasks[t].calls < MaxCalls
  /\ tasks' =
       [tasks EXCEPT ![t] =
          [pc |-> IF shared = 0 THEN "launching" ELSE "newPage",
           fn |-> "fetchRenderedHtml", browser |-> shared, page |-> 0,
           calls |-> tasks[t].calls + 1]]
  /\ UNCHANGED <<engineVars, runVars, browsers, shared, pages>>

\* puppeteer.launch() resolves: browserInstance is assigned the new browser,
\* whatever it held, and getBrowser returns it.
LaunchResolves(t) ==
  /\ tasks[t].pc = "launching"
  /\ browsers' = Append(browsers, "open")
  /\ shared' = Len(browsers) + 1
  /\ browserInstance' = "open"
  /\ tasks' =
       [tasks EXCEPT ![t] =
          IF tasks[t].fn = "getBrowser"
            THEN IdleTask(tasks[t].calls, "getBrowser")
            ELSE [tasks[t] EXCEPT !.pc = "newPage", !.browser = shared']]
  /\ UNCHANGED <<engineVars, pc, idx, running, existingDonations, outcome,
                 newDonations, matchedDonations, allNewDonations, allLogs,
                 results, tab, returned, pages>>

\* puppeteer.launch() rejects: getBrowser rejects, and with it the caller.
LaunchRejects(t) ==
  /\ tasks[t].pc = "launching"
  /\ tasks' = [tasks EXCEPT ![t] = IdleTask(tasks[t].calls, tasks[t].fn)]
  /\ UNCHANGED <<engineVars, runVars, browsers, shared, pages>>

\* browser.newPage() settles: on an open browser a page opens and the try
\* block is entered; on a browser closed in the meantime it rejects, outside
\* the try block.
NewPage(t) ==
  /\ tasks[t].pc = "newPage"
  /\ IF browsers[tasks[t].browser] = "open"
       THEN /\ pages' = Append(pages, [browser |-> tasks[t].browser,
                                       open |-> TRUE])
            /\ tasks' = [tasks EXCEPT ![t].pc = "navigate",
                                      ![t].page = Len(pages) + 1]
       ELSE /\ tasks' =
                 [tasks EXCEPT ![t] = IdleTask(tasks[t].calls, tasks[t].fn)]
            /\ UNCHANGED pages
  /\ UNCHANGED <<engineVars, runVars, browsers, shared>>

\* The try block: page.goto() and what follows resolve, or one of them
\* rejects; either way the finally block is next.
Navigate(t) ==
  /\ tasks[t].pc = "navigate"
  /\ \E ok \in BOOLEAN :
       tasks' = [tasks EXCEPT ![t].pc = IF ok THEN "finally-ok"
                                        ELSE "finally-failed"]
  /\ UNCHANGED <<engineVars, runVars, browsers, shared, pages>>

\* finally { await page.close() }, and fetchRenderedHtml settles.
ClosePage(t) ==
  /\ tasks[t].pc \in {"finally-ok", "finally-failed"}
  /\ pages' = [pages EXCEPT ![tasks[t].page].open = FALSE]
  /\ tasks' = [tasks EXCEPT ![t] = IdleTask(tasks[t].calls, tasks[t].fn)]
  /\ UNCHANGED <<engineVars, runVars, browsers, shared>>

\* closeBrowser() up to its await: with no shared browser it returns,
\* otherwise the close of the shared browser starts.
CallCloseBrowser(t) ==
  /\ tasks[t].pc = "idle"
  /\ tasks[t].calls < MaxCalls
  /\ tasks' =
       [tasks EXCEPT ![t] =
          IF shared = 0
            THEN IdleTask(tasks[t].calls + 1, "closeBrowser")
            ELSE [pc |-> "closing", fn |-> "closeBrowser", browser |-> shared,
                  page |-> 0, calls |-> tasks[t].calls + 1]]
  /\ UNCHANGED <<engineVars, runVars, browsers, shared, pages>>

\* browserInstance.close() resolves: that browser and its pages are closed,
\* and browserInstance is set to null, whatever it holds by now.
CloseResolves(t) ==
  /\ tasks[t].pc = "closing"
  /\ browsers' = [browsers EXCEPT ![tasks[t].browser] = "closed"]
  /\ pages' = [p \in 1..Len(pages) |->
                 IF pages[p].browser = tasks[t].browser
                   THEN [pages[p] EXCEPT !.open = FALSE]
                   ELSE pages[p]]
  /\ shared' = 0
  /\ browserInstance' = "none"
  /\ tasks' = [tasks EXCEPT ![t] = IdleTask(tasks[t].calls, "closeBrowser")]
  /\ UNCHANGED <<engineVars, pc, idx, running, existingDonations, outcome,
                 newDonations, matchedDonations, allNewDonations, allLogs,
                 results, tab, returned>>

BrowserNext ==
  \E t \in Tasks :
    \/ CallGetBrowser(t)
    \/ CallFetchRenderedHtml(t)
    \/ LaunchResolves(t)
    \/ LaunchRejects(t)
    \/ NewPage(t)
    \/ Navigate(t)
    \/ ClosePage(t)
    \/ CallCloseBrowser(t)
    \/ CloseResolves(t)

(***************************************************************************)
(* Specifications                                                          *)
(***************************************************************************)

Init ==
  call = NoCall /\ previous = NoCall /\ tables = StaticTables /\ RunInit
    /\ BrowserInit

\* The calls of the matching engine.
SpecEngine == Init /\ [][EngineNext]_vars

\* The calls of the matching engine, each after any earlier one.
SpecHistory == Init /\ [][HistoryNext]_vars

\* One run of runAll.
Spec == Init /\ [][RunNext]_vars

\* Callers of getBrowser, fetchRenderedHtml and closeBrowser, interleaved at
\* their awaits.
SpecBrowser == Init /\ [][BrowserNext]_vars

(***************************************************************************)
(* Properties of the matching engine, checked under SpecEngine             *)
(***************************************************************************)

\* The call at hand is a call of matchEntities, of findMatch, of normalizeName.
IsMatchCall == call.fn = "matchEntities"
IsFindCall == call.fn = "findMatch"
IsNormalizeCall == call.fn = "normalizeName"

\* The fixtures the symmetry property names, as positions in TEST_CASES:
\* 東亞 | 東亞銀行, 刘亦菲女士 | 劉亦菲, the multi-donor pair
\* 藝人張智霖先生 及 袁詠儀小姐一家 | 張智霖及袁詠儀, 中國燃氣（0384） | 中國宏橋
\* and 張柏芝 | 張智霖.
SymmetryFixtures ==
  {t \in 1..Len(TEST_CASES) :
     <<TEST_CASES[t][1], TEST_CASES[t][2]>> \in
       { << <<"dong", "ya">>, <<"dong", "ya", "yin", "hang">> >>,
         << <<"liu_s", "yi_also", "fei", "nv", "shi4">>,
            <<"liu", "yi_also", "fei">> >>,
         << <<"yi4", "ren", "zhang", "zhi", "lin2", "xian", "sheng", " ",
              "ji2", " ", "yuan2", "yong", "yi2", "xiao", "jie", "yi1", "jia">>,
            <<"zhang", "zhi", "lin2", "ji2", "yuan2", "yong", "yi2">> >>,
         << <<"zhong", "guo", "ran", "qi4", "LPAR", "0", "3", "8", "4", "RPAR">>,
            <<"zhong", "guo", "hong2", "qiao">> >>,
         << <<"zhang", "bai", "zhi1">>, <<"zhang", "zhi", "lin2">> >> }}

\* The call at hand is matchEntities on one of these fixtures, in either
\* order of its two names.
IsSymmetryCall ==
  /\ IsMatchCall
  /\ \E t \in SymmetryFixtures :
       \/ <<call.scrapedName, call.existingName>> = <<TEST_CASES[t][1], TEST_CASES[t][2]>>
       \/ <<call.scrapedName, call.existingName>> = <<TEST_CASES[t][2], TEST_CASES[t][1]>>

\* C1: on every fixture pair of the symmetry property, matchEntities gives
\* the same matched flag when the scraped and the existing name are swapped.
C1_Symmetry ==
  IsSymmetryCall =>
    call.result.matched =
      matchEntities(call.existingName, call.scrapedName).matched

\* C2: normalizeName is idempotent: normalizing the result of normalizeName
\* again gives the same string.
C2_Idempotent ==
  IsNormalizeCall => normalizeName(call.result) = call.result

\* The contiguous non-empty fragments of a name.
FragmentsOf(name) ==
  {SubSeq(name, i, j) : i \in 1..Len(name), j \in 1..Len(name)} \ {<<>>}

\* The fragments two names share, and the longest of them: those no other
\* shared fragment contains.
CommonFragments(a, b) == FragmentsOf(a) \cap FragmentsOf(b)
MaximalCommonFragments(a, b) ==
  {f \in CommonFragments(a, b) :
     \A g \in CommonFragments(a, b) : g = f \/ ~includes(g, f)}

\* Two names that differ by more than white space and share something, but
\* nothing more than words of the generic denylist (which holds the
\* single-character surnames).
OnlyGenericInCommon(a, b) ==
  /\ ~Falsy(a) /\ ~Falsy(b) /\ removeWhitespace(a) # removeWhitespace(b)
  /\ CommonFragments(a, b) # {}
  /\ MaximalCommonFragments(a, b) \subseteq FALSE_POSITIVE_PREFIXES

\* C3: two names whose only fragment in common is a word of the generic
\* denylist or a single-character surname are never matched, whatever the
\* strategy.
C3_FalsePositiveGuard ==
  (IsMatchCall /\ OnlyGenericInCommon(call.scrapedName, call.existingName))
    => ~call.result.matched

\* The strategies of the cascade, each taken alone on the two names.
DirectHit(scrapedName, existingName) ==
  substringMatch(normalizeOrgName(scrapedName), normalizeOrgName(existingName))
ForwardHit(scrapedName, existingName) ==
  substringMatch(s2t(normalizeOrgName(scrapedName)), normalizeOrgName(existingName))
BackwardHit(scrapedName, existingName) ==
  substringMatch(normalizeOrgName(scrapedName), t2s(normalizeOrgName(existingName)))
CoreHit(scrapedName, existingName) ==
  coreMatch(extractCoreNames(scrapedName), extractCoreNames(existingName)) # "none"
QuorumHit(scrapedName, existingName) ==
  quorumMatch(extractCoreNames(scrapedName), extractCoreNames(existingName))

\* The call at hand is matchEntities on two non-empty names.
IsCascadeCall ==
  IsMatchCall /\ ~Falsy(call.scrapedName) /\ ~Falsy(call.existingName)

\* C4: the reason matchEntities returns is that of the first strategy that
\* succeeds, in the order direct, scraped-to-Traditional,
\* existing-to-Simplified, core name, multi-person; a direct success is
\* reported as 'direct' whatever the later strategies would say.
C4_CascadeOrder ==
  IsCascadeCall =>
    LET s == call.scrapedName
        e == call.existingName
        reason == call.result.reason
    IN  /\ DirectHit(s, e) => reason = "direct"
        /\ (~DirectHit(s, e) /\ ForwardHit(s, e)) => reason = "s2t"
        /\ (~DirectHit(s, e) /\ ~ForwardHit(s, e) /\ BackwardHit(s, e))
             => reason = "t2s"
        /\ (~DirectHit(s, e) /\ ~ForwardHit(s, e) /\ ~BackwardHit(s, e)
              /\ CoreHit(s, e))
             => reason \in {"core-exact", "core-substring"}
        /\ (~DirectHit(s, e) /\ ~ForwardHit(s, e) /\ ~BackwardHit(s, e)
              /\ ~CoreHit(s, e) /\ QuorumHit(s, e))
             => reason = "multi-person"
        /\ (~DirectHit(s, e) /\ ~ForwardHit(s, e) /\ ~BackwardHit(s, e)
              /\ ~CoreHit(s, e) /\ ~QuorumHit(s, e))
             => reason = "no-match"
        /\ call.result.matched = (reason # "no-match")

\* C4's case: a call on which the direct strategy and the core-name strategy
\* both succeed, answered 'direct'.
C4_DirectBeatsCore ==
  /\ IsCascadeCall
  /\ DirectHit(call.scrapedName, call.existingName)
  /\ CoreHit(call.scrapedName, call.existingName)
  /\ call.result = Verdict(TRUE, "direct")

\* C5: when either name is the empty string, null or undefined, matchEntities
\* returns exactly {matched: false, reason: 'empty'}.
C5_EmptyInput ==
  (IsMatchCall /\ (Falsy(call.scrapedName) \/ Falsy(call.existingName)))
    => call.result = [matched |-> FALSE, reason |-> "empty"]

\* C5's case: a call with a null scraped name and a real existing name,
\* answered 'empty'.
C5_NullAnswered ==
  /\ IsMatchCall
  /\ call.scrapedName = Null
  /\ ~Falsy(call.existingName)
  /\ call.result.reason = "empty"

\* C6: when normalizeName empties either name, matchEntities returns
\* matched = false.
C6_EmptiedNeverMatches ==
  (IsMatchCall
     /\ (normalizeName(call.scrapedName) = <<>>
           \/ normalizeName(call.existingName) = <<>>))
    => ~call.result.matched

\* The positions of the ledger whose entry matchEntities accepts.
Hits(scrapedName, ledger) ==
  {k \in 1..Len(ledger) : matchEntities(scrapedName, ledger[k].entity).matched}
FirstHit(scrapedName, ledger) ==
  CHOOSE k \in Hits(scrapedName, ledger) :
    \A h \in Hits(scrapedName, ledger) : k <= h

\* C7: findMatch returns the verdict of the first entry, in insertion order,
\* that matchEntities accepts, with that entry's display name; when no entry
\* is accepted (an empty ledger included) it returns
\* {matched: false, matchedEntity: null, reason: 'no-match'}.
C7_FirstPositive ==
  IsFindCall =>
    IF Hits(call.scrapedName, call.ledger) = {}
      THEN call.result =
             [matched |-> FALSE, matchedEntity |-> Null, reason |-> "no-match"]
      ELSE call.result =
             [matched |-> TRUE,
              matchedEntity |->
                call.ledger[FirstHit(call.scrapedName, call.ledger)].entity,
              reason |->
                matchEntities(call.scrapedName,
                              call.ledger[FirstHit(call.scrapedName,
                                                   call.ledger)].entity).reason]

\* C7's case: a ledger whose first entry matches through script conversion
\* and whose second entry matches directly; findMatch answers with the first.
C7_FirstOfTwo ==
  /\ IsFindCall
  /\ Hits(call.scrapedName, call.ledger) = {1, 2}
  /\ matchEntities(call.scrapedName, call.ledger[2].entity).reason = "direct"
  /\ call.result.reason = "s2t"
  /\ call.result.matchedEntity = call.ledger[1].entity

\* The cores the two names of the call have in common, as extractCoreNames
\* returns them.
CoresOf(name) ==
  {extractCoreNames(name)[i] : i \in 1..Len(extractCoreNames(name))}
CommonCores == CoresOf(call.scrapedName) \cap CoresOf(call.existingName)

\* The call at hand is matchEntities on two names of at least two cores each.
IsGroupCall ==
  /\ IsCascadeCall
  /\ Len(extractCoreNames(call.scrapedName)) >= 2
  /\ Len(extractCoreNames(call.existingName)) >= 2

\* C13 as stated: two names of at least two cores each that have at least
\* two cores in common are matched.
C13_QuorumComplete ==
  (IsGroupCall /\ Cardinality(CommonCores) >= 2) => call.result.matched

\* C13: two names of at least two cores each that have in common at least two
\* cores that normalizeName tells apart are matched, however the cores are
\* ordered, separated or followed by titles.
C13_QuorumOfDistinct ==
  (IsGroupCall /\ Cardinality({normalizeName(c) : c \in CommonCores}) >= 2)
    => call.result.matched

\* C13's case: two lists of three names, two of them shared, in opposite
\* orders, one with titles, matched by the multi-person strategy.
C13_SharedPair ==
  /\ IsGroupCall
  /\ Cardinality({normalizeName(c) : c \in CommonCores}) = 2
  /\ Len(extractCoreNames(call.scrapedName)) = 3
  /\ Len(extractCoreNames(call.existingName)) = 3
  /\ extractCoreNames(call.scrapedName)[1] = extractCoreNames(call.existingName)[2]
  /\ includes(call.existingName, <<"xian", "sheng">>)
  /\ call.result = Verdict(TRUE, "multi-person")

\* C14: replacing either name by its canonical alias form (normalizeOrgName)
\* never changes the matched flag of matchEntities.
C14_AliasInvariant ==
  IsCascadeCall =>
    /\ call.result.matched =
         matchEntities(normalizeOrgName(call.scrapedName), call.existingName).matched
    /\ call.result.matched =
         matchEntities(call.scrapedName, normalizeOrgName(call.existingName)).matched

IsExtractCall == call.fn = "extractCoreNames"

\* The segments of a name: the pieces between its runs of separators, each
\* with the stop-phrases removed and trimmed.
CleanedSegments(name) ==
  [k \in 1..Len(split(name)) |-> trim(StripFrom(split(name)[k], 1))]

IsSeparatorFreeCall ==
  /\ IsExtractCall
  /\ ~Falsy(call.name)
  /\ \A i \in 1..Len(call.name) : call.name[i] \notin Separators

\* No stop-phrase occurs in the name, in whatever case.
NoStopPhrase(name) ==
  \A w \in 1..Len(STRIP_WORDS) :
    ~includes(toLowerCase(name), toLowerCase(STRIP_WORDS[w]))

\* C16 as stated: a non-empty name without separator yields exactly one core,
\* the name itself.
C16_SelfCore ==
  IsSeparatorFreeCall => call.result = <<call.name>>

\* C16: a non-empty name without separator yields at most one core: the name
\* with the stop-phrases removed, when at least two characters are left of
\* it, and nothing otherwise; it yields itself when it holds no stop-phrase
\* and has at least two characters.
C16_SingleCleanedCore ==
  IsSeparatorFreeCall =>
    /\ Len(call.result) <= 1
    /\ call.result =
         IF Len(StripFrom(call.name, 1)) >= 2
           THEN <<StripFrom(call.name, 1)>>
           ELSE <<>>
    /\ (NoStopPhrase(call.name) /\ Len(call.name) >= 2)
         => call.result = <<call.name>>

\* C16's case: a name without separator that ends in a title: its single
\* core is the name without the title.
C16_TitleRemoved ==
  /\ IsSeparatorFreeCall
  /\ ~NoStopPhrase(call.name)
  /\ Len(call.result) = 1
  /\ call.result[1] # call.name
  /\ includes(call.name, call.result[1])

IsRenderingCall ==
  /\ IsMatchCall
  /\ \E rendering \in ScriptRenderings, honorific \in Honorifics :
       /\ rendering[1] # rendering[2]
       /\ call.scrapedName = rendering[1] \o honorific
       /\ call.existingName = rendering[2]

\* C18 as stated: a Simplified scraped name and the existing name that is
\* its Traditional rendering are matched, by the scraped-to-Traditional
\* strategy when the direct strategy fails.
C18_RenderingMatched ==
  IsRenderingCall =>
    /\ call.result.matched
    /\ ~DirectHit(call.scrapedName, call.existingName)
         => call.result.reason = "s2t"

\* C18: a Simplified scraped name and the existing name that is its
\* Traditional rendering are matched, by the scraped-to-Traditional strategy
\* when the direct strategy fails, provided that normalizeName leaves
\* something of the name.
C18_NamedRenderingMatched ==
  (IsRenderingCall /\ normalizeName(call.existingName) # <<>>) =>
    /\ call.result.matched
    /\ ~DirectHit(call.scrapedName, call.existingName)
         => call.result.reason = "s2t"

\* C18's case: a Simplified name that ends in an honorific against its
\* Traditional rendering without it: the direct strategy fails and the verdict
\* is that of the scraped-to-Traditional strategy.
C18_ForwardConversion ==
  /\ IsRenderingCall
  /\ call.scrapedName # s2t(call.scrapedName)
  /\ Len(call.scrapedName) > Len(call.existingName)
  /\ ~DirectHit(call.scrapedName, call.existingName)
  /\ call.result = Verdict(TRUE, "s2t")

IsSubstringCall == call.fn = "substringMatch"

\* The rule of the direct strategy on two normalized names that are not
\* empty: they are equal, or the shorter one is not too generic and is a
\* contiguous part of the longer one.
DirectRule(n1, n2) ==
  \/ n1 = n2
  \/ \E pair \in {<<n1, n2>>, <<n2, n1>>} :
       /\ Len(pair[1]) < Len(pair[2])
       /\ ~isTooGeneric(pair[1])
       /\ \E i \in 0..(Len(pair[2]) - Len(pair[1])) :
            SubSeq(pair[2], i + 1, i + Len(pair[1])) = pair[1]

\* C19: on two names whose normalized forms are not empty, substringMatch
\* succeeds exactly when the forms are equal or the shorter one is not too
\* generic and is a contiguous part of the longer one, whatever the order of
\* the arguments; 東亞 against 東亞銀行 is matched with reason 'direct' in both
\* orders.
C19_DirectRule ==
  /\ (IsSubstringCall /\ normalizeName(call.name1) # <<>>
        /\ normalizeName(call.name2) # <<>>)
       => /\ call.result =
               DirectRule(normalizeName(call.name1), normalizeName(call.name2))
          /\ call.result = substringMatch(call.name2, call.name1)
  /\ (IsMatchCall
        /\ {call.scrapedName, call.existingName} =
             {<<"dong", "ya">>, <<"dong", "ya", "yin", "hang">>})
       => call.result = Verdict(TRUE, "direct")

\* C19's case: a name that is not generic, given second, is a proper part of
\* the first name: substringMatch succeeds.
C19_ShorterSecond ==
  /\ IsSubstringCall
  /\ normalizeName(call.name2) # <<>>
  /\ Len(normalizeName(call.name2)) < Len(normalizeName(call.name1))
  /\ call.result

IsGenericCall == call.fn = "isTooGeneric"

\* The CJK ideographs of the model's alphabet: those of the block
\* U+4E00..U+9FFF and the one of Extension A.
Ideographs == CJK \cup {"yan_extA"}

\* The trimmed, lower-cased name is shorter than the minimum of its script, or
\* is an entry of the generic denylist.
ShortOrDenylisted(normalized, scriptChars) ==
  \/ Len(normalized)
       < (IF \E i \in 1..Len(normalized) : normalized[i] \in scriptChars
            THEN 2 ELSE 4)
  \/ normalized \in {toLowerCase(prefix) : prefix \in FALSE_POSITIVE_PREFIXES}

\* C20: isTooGeneric(name) is true exactly when the trimmed, lower-cased name
\* is shorter than its minimum (2 when it contains a CJK ideograph, 4
\* otherwise) or equals an entry of the generic denylist; 中國 is generic, 東亞
\* and 中國燃氣 are not.
C20_GenericRule ==
  IsGenericCall =>
    /\ call.result = ShortOrDenylisted(toLowerCase(trim(call.name)), Ideographs)
    /\ call.name = <<"zhong", "guo">> => call.result
    /\ call.name \in {<<"dong", "ya">>, <<"zhong", "guo", "ran", "qi4">>}
         => ~call.result

\* The pairings the core-name strategy goes through on the call at hand: a
\* scraped core or its Traditional variant, with an existing core.
CorePairings ==
  (CoresOf(call.scrapedName) \cup {s2t(sc) : sc \in CoresOf(call.scrapedName)})
    \X CoresOf(call.existingName)

\* C22: a 'core-exact' verdict comes from a pairing of equal cores that are
\* not too generic, and a 'core-substring' verdict from a pairing of cores
\* of which one contains the other and neither is too generic.
C22_GenericCoresNeverMatch ==
  IsCascadeCall =>
    /\ call.result.reason = "core-exact" =>
         \E p \in CorePairings :
           /\ toLowerCase(p[1]) = toLowerCase(p[2])
           /\ ~isTooGeneric(p[1]) /\ ~isTooGeneric(p[2])
    /\ call.result.reason = "core-substring" =>
         \E p \in CorePairings :
           /\ \/ includes(toLowerCase(p[1]), toLowerCase(p[2]))
              \/ includes(toLowerCase(p[2]), toLowerCase(p[1]))
           /\ ~isTooGeneric(p[1]) /\ ~isTooGeneric(p[2])

\* C23: when the core-name strategy decides the verdict and some pairing of
\* cores long enough is case-insensitively equal, the reason is 'core-exact',
\* even when another pairing satisfies the substring test only.
C23_ExactWins ==
  (IsCascadeCall
     /\ call.result.reason \in {"core-exact", "core-substring"}
     /\ \E p \in CorePairings :
          /\ Len(p[1]) >= getMinLength(p[1])
          /\ Len(p[2]) >= getMinLength(p[2])
          /\ toLowerCase(p[1]) = toLowerCase(p[2]))
    => call.result.reason = "core-exact"

\* The normalized cores of a name, as a set.
NormalizedCores(name) == {normalizeName(c) : c \in CoresOf(name)}

\* One string is a contiguous part of the other.
OneContainsOther(a, b) ==
  \/ \E i \in 0..(Len(a) - Len(b)) : SubSeq(a, i + 1, i + Len(b)) = b
  \/ \E i \in 0..(Len(b) - Len(a)) : SubSeq(b, i + 1, i + Len(a)) = a

\* The normalized scraped cores of the call that have a normalized existing
\* core equal to them, containing them or contained in them.
CorroboratedCores ==
  {sc \in NormalizedCores(call.scrapedName) :
     \E ec \in NormalizedCores(call.existingName) : OneContainsOther(sc, ec)}

\* No strategy before the multi-person one succeeds on the call.
EarlierStrategiesFail ==
  /\ ~DirectHit(call.scrapedName, call.existingName)
  /\ ~ForwardHit(call.scrapedName, call.existingName)
  /\ ~BackwardHit(call.scrapedName, call.existingName)
  /\ ~CoreHit(call.scrapedName, call.existingName)

C25_TwoIndependentNames ==
  (IsCascadeCall /\ call.result.reason = "multi-person") =>
    \E sc1 \in NormalizedCores(call.scrapedName),
       sc2 \in NormalizedCores(call.scrapedName),
       ec1 \in NormalizedCores(call.existingName),
       ec2 \in NormalizedCores(call.existingName) :
      /\ sc1 # sc2 /\ ec1 # ec2
      /\ sc1 # <<>> /\ sc2 # <<>>
      /\ OneContainsOther(sc1, ec1)
      /\ OneContainsOther(sc2, ec2)

(***************************************************************************)
(* Properties of calls that follow earlier calls, checked under            *)
(* SpecHistory                                                             *)
(***************************************************************************)

\* The call at hand has the function and the arguments of the earlier call.
SameArguments ==
  /\ call.fn = previous.fn
  /\ IsMatchCall =>
       /\ call.scrapedName = previous.scrapedName
       /\ call.existingName = previous.existingName
  /\ IsFindCall =>
       /\ call.scrapedName = previous.scrapedName
       /\ call.ledger = previous.ledger

LastLog == allLogs[Len(allLogs)]

\* The last source was scraped and matched to the end: its try block ran
\* through, and outcome.value is what its scrape() resolved to.
LastSucceeded ==
  /\ outcome.kind = "resolved"
  /\ allLogs # <<>>
  /\ LastLog.status = "Success"

\* The records of a batch that findMatch finds, or does not find, in the
\* ledger snapshot, in scraped order.
InLedger(donation) == findMatch(donation.entity, existingDonations).matched
NotInLedger(donation) == ~InLedger(donation)
EntitiesOf(donations) ==
  [k \in 1..Len(donations) |-> donations[k].entity]

\* C8: for a source scraped with success, every scraped record is in exactly
\* one of the lists new (findMatch negative) and matched (findMatch positive),
\* the logged counters are the lengths of the batch and of the two lists, so
\* totalScraped = newCount + matchedCount; and when none of the K records
\* matches the ledger, newCount = K and matchedCount = 0.
C8_BatchPartition ==
  /\ \A i \in 1..Len(allLogs) :
       allLogs[i].status = "Success" =>
         allLogs[i].totalScraped = allLogs[i].newCount + allLogs[i].matchedCount
  /\ LastSucceeded =>
       /\ newDonations = SelectSeq(outcome.value, NotInLedger)
       /\ EntitiesOf(matchedDonations)
            = EntitiesOf(SelectSeq(outcome.value, InLedger))
       /\ LastLog.totalScraped = Len(outcome.value)
       /\ LastLog.newCount = Len(newDonations)
       /\ LastLog.matchedCount = Len(matchedDonations)
       /\ (\A k \in 1..Len(outcome.value) : NotInLedger(outcome.value[k]))
            => (LastLog.newCount = Len(outcome.value)
                  /\ LastLog.matchedCount = 0)

\* C8's case: a batch of which one record is new and another is matched.
C8_MixedBatch ==
  /\ LastSucceeded
  /\ LastLog.newCount >= 1
  /\ LastLog.matchedCount >= 1
  /\ LastLog.totalScraped = LastLog.newCount + LastLog.matchedCount

\* A batch holds a record the matching loop cannot read.
Unreadable(batch) == \E k \in 1..Len(batch) : batch[k] = NullDonation

\* This step settles the scrape of the source at idx with an exception:
\* scrape() rejects, or the matching of what it resolved to raises.
SourceRaises ==
  /\ pc = "await"
  /\ \/ outcome'.kind = "rejected"
     \/ outcome'.kind = "resolved" /\ Unreadable(outcome'.value)

\* What the catch block leaves: one more log entry, for this source, with
\* status 'Error' and zero counters, no new donation, and the loop at the
\* next source.
SourceIsolated ==
  /\ allLogs' =
       Append(allLogs,
              [sourceName |-> ALL_SCRAPERS[idx], totalScraped |-> 0,
               newCount |-> 0, matchedCount |-> 0, status |-> "Error"])
  /\ allNewDonations' = allNewDonations
  /\ idx' = idx + 1
  /\ pc' = "loop"

\* C9: when the scrape or the matching of a source raises, runAll logs that
\* source with status 'Error' and zero counters, adds none of its records to
\* the new donations, and goes on with the next source; once the ledger is
\* read no source ends the run, and a finished run has logged every source
\* in order.
C9_ExceptionIsolation ==
  /\ [][SourceRaises => SourceIsolated]_vars
  /\ [](pc = "rejected" => allLogs = <<>>)
  /\ [](pc \in {"write", "done"} =>
          /\ Len(allLogs) = Len(ALL_SCRAPERS)
          /\ \A i \in 1..Len(allLogs) : allLogs[i].sourceName = ALL_SCRAPERS[i])

\* C9's case: the matching of the second source raised after one of its
\* records had been taken as new; the source is logged as an error and the
\* loop is at the third source.
C9_MatchingRaised ==
  /\ outcome.kind = "resolved"
  /\ Unreadable(outcome.value)
  /\ newDonations # <<>>
  /\ LastLog.status = "Error"
  /\ LastLog.sourceName = "Sing Tao Headlines"
  /\ pc = "loop"
  /\ idx = Len(allLogs) + 1

\* C10: the sources run one at a time in ALL_SCRAPERS order: at most one
\* scrape is pending, it is that of the source the loop is at, and every
\* source before it has settled and is logged, in order.
C10_Sequential ==
  /\ Cardinality(running) <= 1
  /\ running # {} => (running = {idx} /\ pc = "await")
  /\ pc \in {"loop", "await"} => Len(allLogs) = idx - 1
  /\ \A i \in 1..Len(allLogs) : allLogs[i].sourceName = ALL_SCRAPERS[i]

\* C10's case: the scrape of the fifth source is pending and the four
\* sources before it are logged.
C10_FifthPending ==
  /\ running = {Len(allLogs) + 1}
  /\ Len(allLogs) >= 4

\* This step settles a source whose batch the matching loop reads to the end.
SourceMatched ==
  /\ pc = "await"
  /\ outcome'.kind = "resolved"
  /\ ~Unreadable(outcome'.value)

\* C11: the ledger is fetched once, before the first source starts, and is
\* neither fetched again nor modified afterwards: no step after the fetch
\* changes existingDonations (a record judged new is not entered in it), and
\* every source is matched against that snapshot.
C11_OneSnapshot ==
  /\ [](pc = "fetch" =>
          (existingDonations = <<>> /\ idx = 1 /\ running = {}
             /\ allLogs = <<>> /\ outcome.kind = "none"))
  /\ [][pc = "fetch" =>
          \/ pc' = "rejected" /\ existingDonations' = existingDonations
          \/ /\ pc' = "loop"
             /\ \E rows \in SheetChoices :
                  existingDonations' = fetchExistingDonations(rows)]_vars
  /\ [][pc # "fetch" =>
          (pc' # "fetch" /\ existingDonations' = existingDonations)]_vars
  /\ [][SourceMatched =>
          /\ newDonations' = SelectSeq(outcome'.value, NotInLedger)
          /\ EntitiesOf(matchedDonations')
               = EntitiesOf(SelectSeq(outcome'.value, InLedger))
          /\ \A k \in 1..Len(matchedDonations') :
               \E j \in 1..Len(existingDonations) :
                 matchedDonations'[k].matchedWith = existingDonations[j].entity]_vars

\* C11's case: a finished run over a ledger of two entries in which records
\* were judged new, the ledger still being the two entries fetched.
C11_SnapshotKept ==
  /\ pc = "done"
  /\ allNewDonations # <<>>
  /\ \E rows \in SheetChoices :
       /\ Len(rows) = 3
       /\ existingDonations = fetchExistingDonations(rows)
       /\ Len(existingDonations) = 2

\* Every source has finished: the loop is over and each is logged.
AllSourcesFinished ==
  /\ idx = Len(ALL_SCRAPERS) + 1
  /\ running = {}
  /\ Len(allLogs) = Len(ALL_SCRAPERS)

\* The rows are data rows, then the heading of the log section, one log row
\* per entry of logs, and the TOTAL line.
DataThenLogs(rows, donations, logs) ==
  /\ Len(rows) = Len(donations) + Len(logs) + 2
  /\ \A k \in 1..Len(donations) :
       rows[k] = [kind |-> "data", entity |-> s2t(donations[k].entity)]
  /\ rows[Len(donations) + 1].kind = "run"
  /\ \A k \in 1..Len(logs) :
       rows[Len(donations) + 1 + k] = [kind |-> "log", log |-> logs[k]]
  /\ rows[Len(rows)].kind = "total"

Succeeded(res) == {i \in 1..Len(res) : res[i].success}
Failed(res) == {i \in 1..Len(res) : ~res[i].success}

\* C27: once the ledger is fetched the run makes one log entry and one
\* result per scraper of ALL_SCRAPERS, in that order, whichever sources
\* fail; the value it returns has success true exactly when no source
\* failed, counts the sources that succeeded and those that failed, and the
\* two counts add up to the number of scrapers.
C27_OnePerScraper ==
  /\ Len(allLogs) = Len(results)
  /\ \A i \in 1..Len(results) :
       /\ results[i].name = ALL_SCRAPERS[i]
       /\ allLogs[i].sourceName = ALL_SCRAPERS[i]
       /\ results[i].success <=> allLogs[i].status = "Success"
  /\ pc \in {"write", "update", "done", "write-rejected"} =>
       Len(results) = Len(ALL_SCRAPERS)
  /\ pc # "done" => returned = Null
  /\ pc = "done" =>
       /\ returned.results = results
       /\ returned.success <=> Failed(results) = {}
       /\ returned.summary.successCount = Cardinality(Succeeded(results))
       /\ returned.summary.failCount = Cardinality(Failed(results))
       /\ returned.summary.successCount + returned.summary.failCount
            = Len(ALL_SCRAPERS)

\* C27's case: a run has returned in which the first, the fourth and the
\* last source failed and the others succeeded.
C27_SomeFailed ==
  /\ pc = "done"
  /\ Failed(returned.results) = {1, 4, Len(ALL_SCRAPERS)}
  /\ returned.summary.successCount = Len(ALL_SCRAPERS) - 3
  /\ ~returned.success

\* The data rows among the rows of the tab.
IsDataRow(row) == row.kind = "data"
DataRowsOf(rows) == SelectSeq(rows, IsDataRow)

\* C28: the new donations given to writeAllToAutoUpdateTab are the unmatched
\* records of the sources that succeeded, concatenated in ALL_SCRAPERS order
\* and, within a source, in scraped order: a source that is scraped and
\* matched to the end appends its unmatched records, all of them, whether
\* or not an earlier source has put the same entity there; any other step,
\* that of a failing source included, leaves the list as it is.  The data
\* rows written are these records, and their number is the sum of newCount
\* over the log entries, which the TOTAL line shows.
C28_NewConcatenated ==
  /\ [](pc \in {"fetch", "rejected"} => allNewDonations = <<>>)
  /\ [][IF SourceMatched
          THEN allNewDonations' =
                 allNewDonations \o SelectSeq(outcome'.value, NotInLedger)
          ELSE allNewDonations' = allNewDonations]_vars
  /\ [](Len(allNewDonations) = SumNewCount(allLogs))
  /\ [](pc = "done" =>
          /\ DataRowsOf(tab) = DataRows(allNewDonations)
          /\ Len(DataRowsOf(tab)) = SumNewCount(allLogs)
          /\ tab[Len(tab)].kind = "total"
          /\ tab[Len(tab)].totalNew = Len(DataRowsOf(tab)))

\* C28's case: a run is written in which a source failed and two records of
\* the list of new donations have the same entity; the tab holds a data row
\* for each.
C28_SameEntityTwice ==
  /\ pc = "done"
  /\ \E i \in 1..Len(allLogs) : allLogs[i].status = "Error"
  /\ \E j \in 1..Len(allNewDonations), k \in 1..Len(allNewDonations) :
       j < k /\ allNewDonations[j].entity = allNewDonations[k].entity
  /\ Len(DataRowsOf(tab)) = Len(allNewDonations)
  /\ Len(allNewDonations) >= 3

\* The run has ended without reaching writeAllToAutoUpdateTab.
AbortedBeforeWrite == pc \in {"rejected", "close-rejected"}

OpenBrowsers == {b \in 1..Len(browsers) : browsers[b] = "open"}
OpenPages == {p \in 1..Len(pages) : pages[p].open}

\* This step is the return of a closeBrowser that closed a browser.
CloseBrowserCompletes ==
  \E t \in Tasks : tasks[t].pc = "closing" /\ tasks'[t].pc = "idle"

=============================================================================
